---- MODULE Spec2Model ----
(***************************************************************************)
(* Expense tracker REST API: Users, Expenses and Budgets in a document     *)
(* store, and the request handlers of the controllers.                     *)
(*                                                                         *)
(* Units.  Money is counted in cents (0.01 -> 1, 999999.99 -> 99999999).   *)
(* A notification threshold is counted in percent (0.8 -> 80).  A          *)
(* percentage rounded to two decimals is counted in hundredths of a        *)
(* percent (85.00 -> 8500).  A Date is [day, ms]: days since 2023-01-01    *)
(* and milliseconds since midnight; the server's local time zone is UTC.   *)
(* A monthYear string "YYYY-MM" is [y, m] with m any two digits.           *)
(*                                                                         *)
(* A handler is one action per database round trip: the handler is         *)
(* suspended at each await, and other requests run in between.             *)
(***************************************************************************)
EXTENDS Integers, Sequences, FiniteSets, TLC

VARIABLES
  users,     \* the User collection
  expenses,  \* the Expense collection
  budgets,   \* the Budget collection
  nextId,    \* the next ObjectId the store hands out
  inflight,  \* per connection, the request suspended at an await
  last,      \* the response sent most recently, with its request
  now,       \* the server clock
  files      \* the files of the exports directory

vars == <<users, expenses, budgets, nextId, inflight, last, now, files>>

(***************************************************************************)
(* Bounds of the model.                                                    *)
(***************************************************************************)
MaxIds == 2

\* the connections on which requests arrive; each carries one request at a time
Slots == {"c1", "c2"}
UserIds == {"u1", "u2"}

expenseCategories ==
  {"Food & Dining", "Transportation", "Shopping", "Entertainment",
   "Healthcare", "Education", "Bills & Utilities", "Travel",
   "Personal Care", "Subscriptions", "Gifts & Donations", "Other"}

paymentMethods ==
  {"Cash", "Credit Card", "Debit Card", "Bank Transfer", "Digital Wallet",
   "Check", "Other"}

AMOUNT_MIN == 1
AMOUNT_MAX == 99999999
THRESHOLD_MIN == 10
THRESHOLD_MAX == 100
THRESHOLD_DEFAULT == 80

(***************************************************************************)
(* Dates: new Date(year, monthIndex, day, h, min, s, ms) with JavaScript's *)
(* normalisation of a month index outside 0..11 and of day 0.              *)
(***************************************************************************)
IsLeap(y) == (y % 4 = 0 /\ y % 100 # 0) \/ y % 400 = 0

DaysInYear(y) == IF IsLeap(y) THEN 366 ELSE 365

DaysBeforeYear(y) ==
  IF y >= 2023
    THEN (y - 2023) * 365 + Cardinality({k \in 2023..(y - 1) : IsLeap(k)})
    ELSE 0 - ((2023 - y) * 365 + Cardinality({k \in y..2022 : IsLeap(k)}))

DaysBeforeMonth(y, m0) ==
  <<0, 31, 59, 90, 120, 151, 181, 212, 243, 273, 304, 334>>[m0 + 1]
    + (IF IsLeap(y) /\ m0 >= 2 THEN 1 ELSE 0)

JSDate(y, monthIndex, d, h, mi, s, ms) ==
  LET yy == y + (monthIndex \div 12)
      mm == monthIndex % 12
  IN [day |-> DaysBeforeYear(yy) + DaysBeforeMonth(yy, mm) + d - 1,
      ms  |-> ((h * 60 + mi) * 60 + s) * 1000 + ms]

DateLE(a, b) == a.day < b.day \/ (a.day = b.day /\ a.ms <= b.ms)

Years == 2022..2026

getFullYear(date) ==
  CHOOSE y \in Years :
    DaysBeforeYear(y) <= date.day /\ date.day < DaysBeforeYear(y + 1)

\* 0..11
getMonth(date) ==
  LET y == getFullYear(date)
      n == date.day - DaysBeforeYear(y)
  IN CHOOSE m0 \in 0..11 :
       /\ DaysBeforeMonth(y, m0) <= n
       /\ (m0 = 11 \/ n < DaysBeforeMonth(y, m0 + 1))

\* date.toISOString().substring(0, 7)
ISOMonth(date) == [y |-> getFullYear(date), m |-> getMonth(date) + 1]

NoMonth == [y |-> 0, m |-> 0]

\* /^\d{4}-\d{2}$/
MonthYearFormat(my) == my.y \in 0..9999 /\ my.m \in 0..99

(***************************************************************************)
(* Responses.                                                              *)
(***************************************************************************)
NoInfo == [valid |-> TRUE, dup |-> FALSE]

\* the same, with the :id of the request
RequestInfo(id) == [valid |-> TRUE, dup |-> FALSE, id |-> id]

ResponseData(op, user, status, message, info, data) ==
  [op |-> op, user |-> user, status |-> status, message |-> message,
   info |-> info, data |-> data]

Response(op, user, status, message, info) ==
  ResponseData(op, user, status, message, info, <<>>)

NoResponse == Response("none", "nobody", 0, "", NoInfo)

Idle == [op |-> "idle"]

\* An error thrown in a handler reaches the error handling middleware.

ErrorStatus(err) == IF err.status # 0 THEN err.status ELSE 500

DuplicateKeyError == [status |-> 0, message |-> "E11000 duplicate key error"]

ValidationError == [status |-> 0, message |-> "ValidationError"]

(***************************************************************************)
(* Budget model.                                                           *)
(***************************************************************************)
NoNotifications == [present |-> FALSE, enabled |-> TRUE, threshold |-> 0]

Budget(id, userId, category, amountLimit, monthYear, isActive, notif) ==
  [_id |-> id, userId |-> userId, category |-> category,
   amountLimit |-> amountLimit, monthYear |-> monthYear,
   isActive |-> isActive,
   notifications |-> [enabled |-> notif.enabled, threshold |-> notif.threshold]]

\* the schema's validators
budgetSchemaValid(b) ==
  /\ b.userId \in UserIds
  /\ b.category \in expenseCategories
  /\ b.amountLimit >= AMOUNT_MIN /\ b.amountLimit <= AMOUNT_MAX
  /\ MonthYearFormat(b.monthYear)
  /\ b.notifications.threshold >= THRESHOLD_MIN
  /\ b.notifications.threshold <= THRESHOLD_MAX

SameKey(a, b) ==
  a.userId = b.userId /\ a.category = b.category /\ a.monthYear = b.monthYear

\* budgetSchema.index({userId, category, monthYear}, {unique: true}): the
\* store refuses a document whose key another document holds
NoUniqueIndex(doc, coll) == TRUE

UniqueIndexAllows(doc, coll) ==
  \A b \in coll : b._id # doc._id => ~SameKey(b, doc)

\* validateBudget: the fields with an error
validateBudget(body) ==
  {f \in {"category", "amountLimit", "monthYear", "notifications.threshold"} :
     \/ f = "category" /\ body.category \notin expenseCategories
     \/ f = "amountLimit"
          /\ ~(body.amountLimit >= AMOUNT_MIN /\ body.amountLimit <= AMOUNT_MAX)
     \/ f = "monthYear" /\ body.monthYear # NoMonth
          /\ ~MonthYearFormat(body.monthYear)
     \/ f = "notifications.threshold" /\ body.notifications.present
          /\ ~(body.notifications.threshold >= THRESHOLD_MIN
               /\ body.notifications.threshold <= THRESHOLD_MAX)}

FindBudgetByKey(userId, category, monthYear) ==
  {b \in budgets :
     b.userId = userId /\ b.category = category /\ b.monthYear = monthYear}

FindBudgetById(bcoll, id, userId) ==
  {b \in bcoll : b._id = id /\ b.userId = userId}

\* ids still to be handed out, less those promised to suspended creators
Creating ==
  {s \in Slots :
     inflight[s].op \in {"createBudget", "copyPreviousFound", "copyPrevious",
                         "signup"}}

CanAllocate == nextId + Cardinality(Creating) <= MaxIds

(***************************************************************************)
(* Inputs of the budget requests.                                          *)
(***************************************************************************)
CategoryInputs == {"Travel", "Food & Dining", "Bogus"}

LimitInputs == {0, 10000}

NowInputs == {JSDate(2024, 5, 15, 12, 0, 0, 0)}

MonthInputs == {NoMonth, [y |-> 2024, m |-> 5], [y |-> 2024, m |-> 6]}

NotificationInputs == {NoNotifications}

BudgetBodies ==
  [category : CategoryInputs, amountLimit : LimitInputs,
   monthYear : MonthInputs, notifications : NotificationInputs]

(***************************************************************************)
(* createBudget: validation, the existence check (first await), then the   *)
(* insert (second await).                                                  *)
(***************************************************************************)
createBudgetCheck(s, u, body) ==
  /\ inflight[s] = Idle
  /\ CanAllocate
  /\ LET errors == validateBudget(body)
         targetMonthYear ==
           IF body.monthYear # NoMonth THEN body.monthYear ELSE ISOMonth(now)
         existingBudget == FindBudgetByKey(u, body.category, targetMonthYear)
     IN IF errors # {}
          THEN /\ last' = Response("createBudget", u, 400, "Validation failed",
                                   [valid |-> FALSE, dup |-> FALSE])
               /\ UNCHANGED inflight
          ELSE IF existingBudget # {}
            THEN /\ last' = Response("createBudget", u, 400,
                                     "Budget already exists",
                                     [valid |-> TRUE, dup |-> TRUE])
                 /\ UNCHANGED inflight
            ELSE /\ inflight' = [inflight EXCEPT ![s] =
                       [op |-> "createBudget", user |-> u,
                        body |-> [body EXCEPT !.monthYear = targetMonthYear]]]
                 /\ UNCHANGED last
  /\ UNCHANGED <<users, expenses, budgets, nextId, now, files>>

\* Budget.create, and the response or the error it ends in
InsertBudget(s, op, doc) ==
  LET dup == FindBudgetByKey(doc.userId, doc.category, doc.monthYear) # {}
      info == [valid |-> TRUE, dup |-> dup, category |-> doc.category,
               doc |-> doc]
  IN /\ inflight' = [inflight EXCEPT ![s] = Idle]
     /\ IF ~budgetSchemaValid(doc)
          THEN /\ last' = Response(op, doc.userId, ErrorStatus(ValidationError),
                                   ValidationError.message, info)
               /\ UNCHANGED <<budgets, nextId>>
          ELSE IF ~UniqueIndexAllows(doc, budgets)
            THEN /\ last' = Response(op, doc.userId,
                                     ErrorStatus(DuplicateKeyError),
                                     DuplicateKeyError.message, info)
                 /\ UNCHANGED <<budgets, nextId>>
            ELSE /\ budgets' = budgets \cup {doc}
                 /\ nextId' = nextId + 1
                 /\ last' = Response(op, doc.userId, 201, "created", info)
     /\ UNCHANGED <<users, expenses, now, files>>

createBudgetInsert(s) ==
  /\ inflight[s].op = "createBudget"
  /\ LET r == inflight[s]
         notif == IF r.body.notifications.present
                    THEN r.body.notifications
                    ELSE [present |-> TRUE, enabled |-> TRUE,
                          threshold |-> THRESHOLD_DEFAULT]
     IN InsertBudget(s, "createBudget",
          Budget(nextId, r.user, r.body.category, r.body.amountLimit,
                 r.body.monthYear, TRUE, notif))

(***************************************************************************)
(* updateBudget: validation, then one findOneAndUpdate with runValidators. *)
(***************************************************************************)
IsActiveInputs == {"absent", "true", "false"}

\* req.body is the update document: `delete updateData.userId` removes the
\* top-level key only, and a {"$set": {"userId": ...}} of the body is applied
\* with the other fields.  setUserId is that value, or "absent".
SetUserIdInputs == {"absent", "u2"}

ConflictingUpdateOperators ==
  [status |-> 0, message |-> "ConflictingUpdateOperators"]

\* the response, and the collection after the request.  incThreshold is the
\* value of a {"$inc": {"notifications.threshold": ...}} of the body, 0 for
\* a body without it: update validators do not run on $inc, and the store
\* refuses a $set and a $inc of one path
updateBudgetUpdate(bcoll, u, id, body, isActive, setUserId, incThreshold) ==
  LET errors == validateBudget(body)
      found == FindBudgetById(bcoll, id, u)
  IN IF errors # {}
       THEN [status |-> 400, message |-> "Validation failed",
             info |-> [valid |-> FALSE, dup |-> FALSE], budgets |-> bcoll]
       ELSE IF found = {}
         THEN [status |-> 404, message |-> "Budget not found",
               info |-> NoInfo, budgets |-> bcoll]
         ELSE LET old == CHOOSE b \in found : TRUE
                  new == [old EXCEPT
                            !.userId =
                              IF setUserId = "absent" THEN @ ELSE setUserId,
                            !.category = body.category,
                            !.amountLimit = body.amountLimit,
                            !.monthYear =
                              IF body.monthYear # NoMonth
                                THEN body.monthYear ELSE @,
                            !.isActive =
                              IF isActive = "absent" THEN @
                              ELSE isActive = "true",
                            !.notifications =
                              IF body.notifications.present
                                THEN [enabled |-> body.notifications.enabled,
                                      threshold |->
                                        body.notifications.threshold]
                                ELSE [@ EXCEPT !.threshold = @ + incThreshold]]
              IN IF body.notifications.present /\ incThreshold # 0
                   THEN [status |-> ErrorStatus(ConflictingUpdateOperators),
                         message |-> ConflictingUpdateOperators.message,
                         info |-> NoInfo, budgets |-> bcoll]
                 ELSE IF ~UniqueIndexAllows(new, bcoll)
                   THEN [status |-> ErrorStatus(DuplicateKeyError),
                         message |-> DuplicateKeyError.message,
                         info |-> [valid |-> TRUE, dup |-> TRUE],
                         budgets |-> bcoll]
                   ELSE [status |-> 200, message |-> "updated",
                         info |-> NoInfo,
                         budgets |-> (bcoll \ {old}) \cup {new}]

updateBudgetResult(bcoll, u, id, body, isActive, setUserId) ==
  updateBudgetUpdate(bcoll, u, id, body, isActive, setUserId, 0)

updateBudget(u, id, body, isActive, setUserId) ==
  /\ LET r == updateBudgetResult(budgets, u, id, body, isActive, setUserId)
     IN /\ budgets' = r.budgets
        /\ last' = Response("updateBudget", u, r.status, r.message,
                            r.info @@ [id |-> id])
  /\ UNCHANGED <<users, expenses, nextId, inflight, now, files>>

(***************************************************************************)
(* deleteBudget: one findOneAndDelete.                                     *)
(***************************************************************************)
deleteBudgetResult(bcoll, u, id) ==
  LET found == FindBudgetById(bcoll, id, u)
  IN IF found = {}
       THEN [status |-> 404, message |-> "Budget not found", budgets |-> bcoll]
       ELSE [status |-> 200, message |-> "deleted", budgets |-> bcoll \ found]

deleteBudget(u, id) ==
  /\ LET r == deleteBudgetResult(budgets, u, id)
     IN /\ budgets' = r.budgets
        /\ last' = Response("deleteBudget", u, r.status, r.message,
                            RequestInfo(id))
  /\ UNCHANGED <<users, expenses, nextId, inflight, now, files>>

(***************************************************************************)
(* copyPreviousMonthBudget: find the previous month's budget, check the    *)
(* current month, insert: three awaits.                                    *)
(***************************************************************************)
previousMonthYear ==
  LET previousMonth ==
        JSDate(getFullYear(now), getMonth(now) - 1, 1, 0, 0, 0, 0)
  IN [y |-> getFullYear(previousMonth), m |-> getMonth(previousMonth) + 1]

copyPreviousFind(s, u, category) ==
  /\ inflight[s] = Idle
  /\ CanAllocate
  /\ LET previousBudget == FindBudgetByKey(u, category, previousMonthYear)
     IN IF previousBudget = {}
          THEN /\ last' = Response("copyPrevious", u, 404, "No budget found",
                                   NoInfo @@ [category |-> category])
               /\ UNCHANGED inflight
          ELSE /\ inflight' = [inflight EXCEPT ![s] =
                     [op |-> "copyPreviousFound", user |-> u,
                      category |-> category,
                      previousBudget |-> CHOOSE b \in previousBudget : TRUE]]
               /\ UNCHANGED last
  /\ UNCHANGED <<users, expenses, budgets, nextId, now, files>>

copyPreviousCheck(s) ==
  /\ inflight[s].op = "copyPreviousFound"
  /\ LET r == inflight[s]
         currentMonthYear == ISOMonth(now)
         existingBudget == FindBudgetByKey(r.user, r.category, currentMonthYear)
     IN IF existingBudget # {}
          THEN /\ last' = Response("copyPrevious", r.user, 400,
                                   "Budget already exists",
                                   [valid |-> TRUE, dup |-> TRUE,
                                    category |-> r.category])
               /\ inflight' = [inflight EXCEPT ![s] = Idle]
          ELSE /\ inflight' = [inflight EXCEPT ![s] =
                     [op |-> "copyPrevious", user |-> r.user,
                      category |-> r.category,
                      previousBudget |-> r.previousBudget,
                      monthYear |-> currentMonthYear]]
               /\ UNCHANGED last
  /\ UNCHANGED <<users, expenses, budgets, nextId, now, files>>

copyPreviousInsert(s) ==
  /\ inflight[s].op = "copyPrevious"
  /\ LET r == inflight[s]
     IN InsertBudget(s, "copyPrevious",
          Budget(nextId, r.user, r.category, r.previousBudget.amountLimit,
                 r.monthYear, TRUE,
                 [present |-> TRUE,
                  enabled |-> r.previousBudget.notifications.enabled,
                  threshold |-> r.previousBudget.notifications.threshold]))

(***************************************************************************)
(* The budget endpoints under concurrent requests.                         *)
(***************************************************************************)
InitBudget ==
  /\ users = {}
  /\ expenses = {}
  /\ budgets = {}
  /\ nextId = 1
  /\ inflight = [s \in Slots |-> Idle]
  /\ last = NoResponse
  /\ now \in NowInputs
  /\ files = {}

NextBudget ==
  \/ \E s \in Slots, u \in UserIds, body \in BudgetBodies :
       createBudgetCheck(s, u, body)
  \/ \E s \in Slots : createBudgetInsert(s)
  \/ \E u \in UserIds, id \in 1..MaxIds, body \in BudgetBodies,
          setUserId \in SetUserIdInputs :
       updateBudget(u, id, body, "absent", setUserId)
  \/ \E u \in UserIds, id \in 1..MaxIds : deleteBudget(u, id)
  \/ \E s \in Slots, u \in UserIds, category \in CategoryInputs :
       copyPreviousFind(s, u, category)
  \/ \E s \in Slots : copyPreviousCheck(s)
  \/ \E s \in Slots : copyPreviousInsert(s)

SpecBudget == InitBudget /\ [][NextBudget]_vars

(***************************************************************************)
(* C1: in every reachable state the store holds at most one Budget for     *)
(* each (userId, category, monthYear).                                     *)
(***************************************************************************)
C1_OneBudgetPerKey == \A a, b \in budgets : SameKey(a, b) => a._id = b._id

\* the unique index has refused an insert or an update that raced past the
\* handler's own check, next to a stored budget
C1_Witness ==
  /\ last.status = 500 /\ last.info.dup
  /\ budgets # {}

(***************************************************************************)
(* C2: of two createBudget requests for the same (user, category,          *)
(* monthYear), sequential or interleaved, the first to insert gets 201 and *)
(* the other the duplicate-budget error, status 400.                       *)
(***************************************************************************)
C2_SecondCreateIsDuplicate400 ==
  (last.op = "createBudget" /\ last.info.valid) =>
    IF last.info.dup
      THEN last.status = 400 /\ last.message = "Budget already exists"
      ELSE last.status = 201

(***************************************************************************)
(* Expense model.                                                          *)
(***************************************************************************)
Expense(id, userId, amount, category, date, paymentMethod, description, tags) ==
  [_id |-> id, userId |-> userId, amount |-> amount, category |-> category,
   date |-> date, paymentMethod |-> paymentMethod,
   description |-> description, tags |-> tags]

RECURSIVE SumAmount(_)
\* $group: {$sum: '$amount'}
SumAmount(S) ==
  IF S = {} THEN 0
  ELSE LET e == CHOOSE x \in S : TRUE IN e.amount + SumAmount(S \ {e})

\* Math.round(num / den), num >= 0 and den > 0
MathRound(num, den) == (2 * num + den) \div (2 * den)

(***************************************************************************)
(* Budget.getBudgetStatus(userId, monthYear), over the collections given.  *)
(***************************************************************************)
\* the $match stage of the spending aggregate of one budget
EndOfMonth(monthYear) == JSDate(monthYear.y, monthYear.m, 0, 23, 59, 59, 0)

\* the same without the category of the budget
BudgetSpendingMatchAnyCategory(ecoll, userId, category, monthYear) ==
  LET startDate == JSDate(monthYear.y, monthYear.m - 1, 1, 0, 0, 0, 0)
      endDate   == EndOfMonth(monthYear)
  IN {e \in ecoll :
        /\ e.userId = userId
        /\ DateLE(startDate, e.date) /\ DateLE(e.date, endDate)}

BudgetSpendingMatch(ecoll, userId, category, monthYear) ==
  LET startDate == JSDate(monthYear.y, monthYear.m - 1, 1, 0, 0, 0, 0)
      endDate   == EndOfMonth(monthYear)
  IN {e \in ecoll :
        /\ e.userId = userId
        /\ e.category = category
        /\ DateLE(startDate, e.date) /\ DateLE(e.date, endDate)}

IsOverBudgetFrom(totalSpent, amountLimit) == totalSpent >= amountLimit

IsOverBudget(totalSpent, amountLimit) == totalSpent > amountLimit

ShouldAlertAbove(totalSpent, amountLimit, threshold) ==
  100 * totalSpent > threshold * amountLimit

\* percentageUsed >= threshold * 100, on the percentage before it is rounded
ShouldAlert(totalSpent, amountLimit, threshold) ==
  100 * totalSpent >= threshold * amountLimit

BudgetStatusEntry(budget, totalSpent) ==
  [budget |-> budget,
   totalSpent |-> totalSpent,
   remaining |-> budget.amountLimit - totalSpent,
   percentageUsed |-> MathRound(10000 * totalSpent, budget.amountLimit),
   isOverBudget |-> IsOverBudget(totalSpent, budget.amountLimit),
   shouldAlert |-> ShouldAlert(totalSpent, budget.amountLimit,
                               budget.notifications.threshold)]

\* a.category.localeCompare(b.category)
localeCompareRank(category) ==
  LET order == <<"Bills & Utilities", "Education", "Entertainment",
                 "Food & Dining", "Gifts & Donations", "Healthcare", "Other",
                 "Personal Care", "Shopping", "Subscriptions",
                 "Transportation", "Travel">>
  IN CHOOSE i \in 1..12 : order[i] = category

RECURSIVE SortByCategory(_)
\* Array.prototype.sort is stable: budgets of one category stay in find order
SortByCategory(S) ==
  IF S = {} THEN <<>>
  ELSE LET first == CHOOSE x \in S : \A y \in S :
                      \/ localeCompareRank(x.budget.category)
                           < localeCompareRank(y.budget.category)
                      \/ /\ x.budget.category = y.budget.category
                         /\ x.budget._id <= y.budget._id
       IN <<first>> \o SortByCategory(S \ {first})

AllBudgetsOfMonth(bcoll, userId, monthYear) ==
  {b \in bcoll : b.userId = userId /\ b.monthYear = monthYear}

ActiveBudgetsOfMonth(bcoll, userId, monthYear) ==
  {b \in bcoll : b.userId = userId /\ b.monthYear = monthYear /\ b.isActive}

BudgetStatusOf(bcoll, ecoll, userId, monthYear) ==
  SortByCategory(
    {BudgetStatusEntry(b,
       SumAmount(BudgetSpendingMatch(ecoll, userId, b.category, monthYear))) :
       b \in ActiveBudgetsOfMonth(bcoll, userId, monthYear)})

\* the controller, with no write between its queries
getBudgetStatus(u, monthYear) ==
  /\ LET targetMonthYear ==
           IF monthYear # NoMonth THEN monthYear ELSE ISOMonth(now)
     IN last' = ResponseData("getBudgetStatus", u, 200, "",
                  [valid |-> TRUE, dup |-> FALSE, monthYear |-> targetMonthYear],
                  BudgetStatusOf(budgets, expenses, u, targetMonthYear))
  /\ UNCHANGED <<users, expenses, budgets, nextId, inflight, now, files>>

getBudgetAlerts(u, monthYear) ==
  /\ LET targetMonthYear ==
           IF monthYear # NoMonth THEN monthYear ELSE ISOMonth(now)
         budgetStatus == BudgetStatusOf(budgets, expenses, u, targetMonthYear)
     IN last' = ResponseData("getBudgetAlerts", u, 200, "",
                  [valid |-> TRUE, dup |-> FALSE, monthYear |-> targetMonthYear],
                  SelectSeq(budgetStatus,
                            LAMBDA e : e.isOverBudget \/ e.shouldAlert))
  /\ UNCHANGED <<users, expenses, budgets, nextId, inflight, now, files>>

(***************************************************************************)
(* The status computation over stores drawn from bounded sets.             *)
(***************************************************************************)
MaxStatusExpenses == 2
MaxStatusBudgets == 2

RECURSIVE SetToSeq(_)
SetToSeq(S) ==
  IF S = {} THEN <<>>
  ELSE LET x == CHOOSE x \in S : TRUE IN <<x>> \o SetToSeq(S \ {x})

\* the documents of a sequence, each with its index as _id
WithIds(seq) == {[seq[i] EXCEPT !._id = i] : i \in DOMAIN seq}

June2024 == [y |-> 2024, m |-> 6]

StatusExpenseInputs ==
  WithIds(SetToSeq(
    {Expense(0, "u1", a, "Travel", JSDate(2024, 5, 15, 12, 0, 0, 0),
             "Cash", "x", <<>>) : a \in {8000, 8500, 2000}}
    \cup
    {Expense(0, "u1", 2000, "Food & Dining", JSDate(2024, 5, 15, 12, 0, 0, 0),
             "Cash", "x", <<>>),
     Expense(0, "u2", 2000, "Travel", JSDate(2024, 5, 15, 12, 0, 0, 0),
             "Cash", "x", <<>>)}
    \cup
    {Expense(0, "u1", 2000, "Travel", d, "Cash", "x", <<>>) :
       d \in {JSDate(2024, 4, 31, 23, 59, 59, 999),
              JSDate(2024, 5, 1, 0, 0, 0, 0),
              JSDate(2024, 5, 30, 23, 59, 59, 0),
              JSDate(2024, 5, 30, 23, 59, 59, 500),
              JSDate(2024, 6, 1, 0, 0, 0, 0)}}))

StatusBudgetInputs ==
  WithIds(SetToSeq(
    {Budget(0, "u1", c, 10000, June2024, TRUE,
            [enabled |-> TRUE, threshold |-> 80]) :
       c \in {"Travel", "Food & Dining"}}
    \cup
    {Budget(0, "u2", "Travel", 10000, June2024, TRUE,
            [enabled |-> TRUE, threshold |-> 80]),
     Budget(0, "u1", "Travel", 30000, June2024, TRUE,
            [enabled |-> TRUE, threshold |-> 80]),
     Budget(0, "u1", "Travel", 10000, June2024, FALSE,
            [enabled |-> TRUE, threshold |-> 80]),
     Budget(0, "u1", "Travel", 10000, [y |-> 2024, m |-> 7], TRUE,
            [enabled |-> FALSE, threshold |-> 50])}))

InitStatus ==
  /\ users = {}
  /\ expenses \in {S \in SUBSET StatusExpenseInputs :
                     Cardinality(S) <= MaxStatusExpenses}
  /\ budgets \in {S \in SUBSET StatusBudgetInputs :
                    /\ Cardinality(S) <= MaxStatusBudgets
                    /\ \A a, b \in S : SameKey(a, b) => a = b}
  /\ nextId = 1
  /\ inflight = [s \in Slots |-> Idle]
  /\ last = NoResponse
  /\ now \in NowInputs
  /\ files = {}

StatusMonthInputs == {NoMonth, [y |-> 2024, m |-> 7]}

NextStatus ==
  \/ \E u \in UserIds, monthYear \in StatusMonthInputs :
       getBudgetStatus(u, monthYear)
  \/ \E u \in UserIds, monthYear \in StatusMonthInputs :
       getBudgetAlerts(u, monthYear)

SpecStatus == InitStatus /\ [][NextStatus]_vars

IsStatusResponse == last.op \in {"getBudgetStatus", "getBudgetAlerts"}

Entries == {last.data[i] : i \in DOMAIN last.data}

(***************************************************************************)
(* C3: every entry of a budget status has remaining = amountLimit -        *)
(* totalSpent and isOverBudget = (totalSpent > amountLimit).               *)
(***************************************************************************)
C3_RemainingAndOverBudget ==
  IsStatusResponse =>
    \A e \in Entries :
      /\ e.remaining + e.totalSpent = e.budget.amountLimit
      /\ e.isOverBudget <=> (e.budget.amountLimit < e.totalSpent)

\* limit 100 with expenses of 85 and 20: totalSpent 105, remaining -5, over
C3_Witness ==
  /\ IsStatusResponse
  /\ \E e \in Entries :
       /\ e.budget.amountLimit = 10000 /\ e.totalSpent = 10500
       /\ e.remaining = 0 - 500 /\ e.isOverBudget

(***************************************************************************)
(* C4: with no concurrent writes, getBudgetStatus returns one entry per    *)
(* active budget of the user and month, and each totalSpent is the sum of  *)
(* the expenses of the same owner and category dated in that calendar      *)
(* month, from its first to its last day, at any time of day; with no such *)
(* expense totalSpent and percentageUsed are 0.                            *)
(***************************************************************************)
ExpensesOfCalendarMonth(userId, category, monthYear) ==
  {e \in expenses :
     e.userId = userId /\ e.category = category /\ ISOMonth(e.date) = monthYear}

C4_TotalSpentIsMonthSum ==
  last.op = "getBudgetStatus" =>
    /\ {e.budget : e \in Entries}
         = {b \in budgets : b.userId = last.user /\ b.isActive
                              /\ b.monthYear = last.info.monthYear}
    /\ Len(last.data) = Cardinality({e.budget : e \in Entries})
    /\ \A e \in Entries :
         /\ e.totalSpent =
              SumAmount(ExpensesOfCalendarMonth(last.user, e.budget.category,
                                                last.info.monthYear))
         /\ (ExpensesOfCalendarMonth(last.user, e.budget.category,
                                     last.info.monthYear) = {}
               => e.totalSpent = 0 /\ e.percentageUsed = 0)

(***************************************************************************)
(* C5 as claimed: percentageUsed = 100 * totalSpent / amountLimit and      *)
(* shouldAlert = (percentageUsed >= 100 * threshold).                      *)
(***************************************************************************)
C5_ExactPercentage ==
  IsStatusResponse =>
    \A e \in Entries :
      /\ e.percentageUsed * e.budget.amountLimit = 10000 * e.totalSpent
      /\ e.shouldAlert <=>
           (e.percentageUsed >= 100 * e.budget.notifications.threshold)

(***************************************************************************)
(* C5 as amended: percentageUsed is 100 * totalSpent / amountLimit rounded *)
(* to two decimals (half up), and shouldAlert compares the quotient before *)
(* rounding with 100 * threshold, the boundary included.                   *)
(***************************************************************************)
C5_RoundedPercentage ==
  IsStatusResponse =>
    \A e \in Entries :
      LET exact == 10000 * e.totalSpent
          l == e.budget.amountLimit
      IN /\ 2 * e.percentageUsed * l <= 2 * exact + l
         /\ 2 * e.percentageUsed * l > 2 * exact - l
         /\ e.shouldAlert <=>
              (100 * e.totalSpent >= e.budget.notifications.threshold * l)

\* exactly 80 of 100 spent at threshold 0.8 alerts; 80 of 300 is 26.67 percent
C5_Witness ==
  /\ IsStatusResponse
  /\ \E e \in Entries :
       /\ e.totalSpent = 8000 /\ e.budget.amountLimit = 10000
       /\ e.budget.notifications.threshold = 80
       /\ e.percentageUsed = 8000 /\ e.shouldAlert /\ ~e.isOverBudget

(***************************************************************************)
(* Expense requests.  A text (description, tag, search term) is a sequence *)
(* of characters; a category or payment method is spelt out by Letters.    *)
(***************************************************************************)
DESCRIPTION_MAX == 500

NoDate == [day |-> 0 - 1000000, ms |-> 0]

RECURSIVE Trim(_)
\* String.prototype.trim
Trim(text) ==
  IF text = <<>> THEN <<>>
  ELSE IF Head(text) = " " THEN Trim(Tail(text))
  ELSE IF text[Len(text)] = " " THEN Trim(SubSeq(text, 1, Len(text) - 1))
  ELSE text

\* validateExpense: the fields with an error
validateExpenseNoAmount(body) ==
  {f \in {"category", "paymentMethod", "description"} :
     \/ f = "category" /\ body.category \notin expenseCategories
     \/ f = "paymentMethod" /\ body.paymentMethod \notin paymentMethods
     \/ f = "description"
          /\ ~(Len(Trim(body.description)) >= 1
               /\ Len(Trim(body.description)) <= DESCRIPTION_MAX)}

validateExpense(body) ==
  {f \in {"amount", "category", "paymentMethod", "description"} :
     \/ f = "amount"
          /\ ~(body.amount >= AMOUNT_MIN /\ body.amount <= AMOUNT_MAX)
     \/ f = "category" /\ body.category \notin expenseCategories
     \/ f = "paymentMethod" /\ body.paymentMethod \notin paymentMethods
     \/ f = "description"
          /\ ~(Len(Trim(body.description)) >= 1
               /\ Len(Trim(body.description)) <= DESCRIPTION_MAX)}

\* the schema's validators
expenseSchemaValid(e) ==
  /\ e.userId \in UserIds
  /\ e.amount >= AMOUNT_MIN /\ e.amount <= AMOUNT_MAX
  /\ e.category \in expenseCategories
  /\ e.date # NoDate
  /\ e.paymentMethod \in paymentMethods
  /\ Len(e.description) >= 1 /\ Len(e.description) <= DESCRIPTION_MAX

\* the filter {_id: id}
FindExpenseByIdOnly(ecoll, id, userId) == {e \in ecoll : e._id = id}

\* the filter {_id: id, userId}
FindExpenseById(ecoll, id, userId) ==
  {e \in ecoll : e._id = id /\ e.userId = userId}

NoTags == [present |-> FALSE, list |-> <<>>]

(***************************************************************************)
(* getExpense: one findOne.                                                *)
(***************************************************************************)
getExpense(u, id) ==
  /\ LET expense == FindExpenseById(expenses, id, u)
     IN IF expense = {}
          THEN last' = Response("getExpense", u, 404, "Expense not found",
                                RequestInfo(id))
          ELSE last' = ResponseData("getExpense", u, 200, "", RequestInfo(id),
                                    <<CHOOSE e \in expense : TRUE>>)
  /\ UNCHANGED <<users, expenses, budgets, nextId, inflight, now, files>>

(***************************************************************************)
(* updateExpense: validation, then one findOneAndUpdate with               *)
(* runValidators; the body is the update document, as in updateBudget.     *)
(***************************************************************************)
updateExpenseResult(ecoll, u, id, body, setUserId) ==
  LET errors == validateExpense(body)
      found == FindExpenseById(ecoll, id, u)
  IN IF errors # {}
       THEN [status |-> 400, message |-> "Validation failed",
             expenses |-> ecoll]
       ELSE IF found = {}
         THEN [status |-> 404, message |-> "Expense not found",
               expenses |-> ecoll]
         ELSE LET old == CHOOSE e \in found : TRUE
                  new == [old EXCEPT
                            !.userId =
                              IF setUserId = "absent" THEN @ ELSE setUserId,
                            !.amount = body.amount,
                            !.category = body.category,
                            !.date = IF body.date # NoDate THEN body.date ELSE @,
                            !.paymentMethod = body.paymentMethod,
                            !.description = Trim(body.description),
                            !.tags = IF body.tags.present
                                       THEN body.tags.list ELSE @]
              IN IF ~expenseSchemaValid(new)
                   THEN [status |-> ErrorStatus(ValidationError),
                         message |-> ValidationError.message,
                         expenses |-> ecoll]
                   ELSE [status |-> 200,
                         message |-> "Expense updated successfully",
                         expenses |-> (ecoll \ {old}) \cup {new}]

updateExpense(u, id, body, setUserId) ==
  /\ LET r == updateExpenseResult(expenses, u, id, body, setUserId)
     IN /\ expenses' = r.expenses
        /\ last' = Response("updateExpense", u, r.status, r.message,
                            [valid |-> r.status # 400, dup |-> FALSE,
                             amount |-> body.amount,
                             stored |-> r.expenses # expenses,
                             id |-> id, body |-> body,
                             before |-> FindExpenseById(expenses, id, u),
                             after |-> {e \in r.expenses : e._id = id}])
  /\ UNCHANGED <<users, budgets, nextId, inflight, now, files>>

(***************************************************************************)
(* deleteExpense: one findOneAndDelete.                                    *)
(***************************************************************************)
deleteExpenseResult(ecoll, u, id) ==
  LET found == FindExpenseById(ecoll, id, u)
  IN IF found = {}
       THEN [status |-> 404, message |-> "Expense not found",
             expenses |-> ecoll]
       ELSE [status |-> 200, message |-> "Expense deleted successfully",
             expenses |-> ecoll \ found]

deleteExpense(u, id) ==
  /\ LET r == deleteExpenseResult(expenses, u, id)
     IN /\ expenses' = r.expenses
        /\ last' = Response("deleteExpense", u, r.status, r.message,
                            RequestInfo(id))
  /\ UNCHANGED <<users, budgets, nextId, inflight, now, files>>

(***************************************************************************)
(* createExpense: validation and Expense.create (first await), the active  *)
(* budgets of the current month (second await), and for the budget of the  *)
(* expense's category its current spending (third await).                  *)
(***************************************************************************)
\* Expense.create(doc) replacing the collection by the document
InsertExpenseOnly(ecoll, expense) == {expense}

\* Expense.create(doc): the document joins the collection
InsertExpense(ecoll, expense) == ecoll \cup {expense}

createExpenseInsert(s, u, body) ==
  /\ inflight[s] = Idle
  /\ CanAllocate
  /\ LET errors == validateExpense(body)
         expense == Expense(nextId, u, body.amount, body.category,
                            IF body.date # NoDate THEN body.date ELSE now,
                            body.paymentMethod, Trim(body.description),
                            body.tags.list)
     IN IF errors # {}
          THEN /\ UNCHANGED <<expenses, nextId, inflight>>
               /\ last' = Response("createExpense", u, 400, "Validation failed",
                                   [valid |-> FALSE, dup |-> FALSE,
                                    amount |-> body.amount,
                                    stored |-> expenses' # expenses])
          ELSE IF ~expenseSchemaValid(expense)
            THEN /\ UNCHANGED <<expenses, nextId, inflight>>
                 /\ last' = Response("createExpense", u,
                                     ErrorStatus(ValidationError),
                                     ValidationError.message,
                                     [valid |-> TRUE, dup |-> FALSE,
                                      amount |-> body.amount,
                                      stored |-> expenses' # expenses])
            ELSE /\ expenses' = InsertExpense(expenses, expense)
                 /\ nextId' = nextId + 1
                 /\ inflight' = [inflight EXCEPT ![s] =
                       [op |-> "createExpenseCreated", user |-> u,
                        expense |-> expense, amount |-> body.amount]]
                 /\ UNCHANGED last
  /\ UNCHANGED <<users, budgets, now, files>>

createExpenseRespond(s, budgetAlerts) ==
  LET r == inflight[s]
  IN /\ last' = ResponseData("createExpense", r.user, 201,
                             "Expense created successfully",
                             [valid |-> TRUE, dup |-> FALSE,
                              amount |-> r.amount, stored |-> TRUE],
                             [expense |-> r.expense,
                              budgetAlerts |-> budgetAlerts])
     /\ inflight' = [inflight EXCEPT ![s] = Idle]

\* Budget.findByUserAndMonth(userId, currentMonth); the unique index leaves at
\* most one budget of the expense's category among them
createExpenseBudgets(s) ==
  /\ inflight[s].op = "createExpenseCreated"
  /\ LET r == inflight[s]
         currentMonth == ISOMonth(now)
         matching == {b \in ActiveBudgetsOfMonth(budgets, r.user, currentMonth) :
                        b.category = r.expense.category}
     IN IF matching = {}
          THEN createExpenseRespond(s, <<>>)
          ELSE /\ inflight' = [inflight EXCEPT ![s] =
                     [op |-> "createExpenseSpending", user |-> r.user,
                      expense |-> r.expense, amount |-> r.amount,
                      budget |-> CHOOSE b \in matching : TRUE]]
               /\ UNCHANGED last
  /\ UNCHANGED <<users, expenses, budgets, nextId, now, files>>

\* budget.getCurrentSpending(), then the alert of the budget
createExpenseAlerts(s) ==
  /\ inflight[s].op = "createExpenseSpending"
  /\ LET r == inflight[s]
         budget == r.budget
         currentSpending ==
           SumAmount(BudgetSpendingMatch(expenses, budget.userId,
                                         budget.category, budget.monthYear))
         newTotal == currentSpending + r.amount
     IN createExpenseRespond(s,
          IF newTotal > budget.amountLimit
            THEN <<[kind |-> "exceeded", category |-> budget.category,
                    amountLimit |-> budget.amountLimit,
                    currentSpending |-> newTotal,
                    exceededBy |-> newTotal - budget.amountLimit]>>
          ELSE IF 100 * newTotal
                    >= budget.notifications.threshold * budget.amountLimit
            THEN <<[kind |-> "threshold", category |-> budget.category,
                    amountLimit |-> budget.amountLimit,
                    currentSpending |-> newTotal,
                    percentageUsed |->
                      MathRound(10000 * newTotal, budget.amountLimit)]>>
          ELSE <<>>)
  /\ UNCHANGED <<users, expenses, budgets, nextId, now, files>>

(***************************************************************************)
(* Listing and searching: find with sort, skip and limit (first await),    *)
(* then countDocuments with the same filter (second await).                *)
(***************************************************************************)
UpperCase ==
  <<"A", "B", "C", "D", "E", "F", "G", "H", "I", "J", "K", "L", "M",
    "N", "O", "P", "Q", "R", "S", "T", "U", "V", "W", "X", "Y", "Z">>

LowerCase ==
  <<"a", "b", "c", "d", "e", "f", "g", "h", "i", "j", "k", "l", "m",
    "n", "o", "p", "q", "r", "s", "t", "u", "v", "w", "x", "y", "z">>

toLowerCase(c) ==
  IF \E i \in 1..26 : UpperCase[i] = c
    THEN LowerCase[CHOOSE i \in 1..26 : UpperCase[i] = c]
    ELSE c

\* the characters of a category or payment method
Letters(name) ==
  CASE name = "Food & Dining" ->
         <<"F", "o", "o", "d", " ", "&",
           " ", "D", "i", "n", "i", "n", "g">>
    [] name = "Transportation" ->
         <<"T", "r", "a", "n", "s", "p", "o",
           "r", "t", "a", "t", "i", "o", "n">>
    [] name = "Shopping" -> <<"S", "h", "o", "p", "p", "i", "n", "g">>
    [] name = "Entertainment" ->
         <<"E", "n", "t", "e", "r", "t",
           "a", "i", "n", "m", "e", "n", "t">>
    [] name = "Healthcare" ->
         <<"H", "e", "a", "l", "t",
           "h", "c", "a", "r", "e">>
    [] name = "Education" -> <<"E", "d", "u", "c", "a", "t", "i", "o", "n">>
    [] name = "Bills & Utilities" ->
         <<"B", "i", "l", "l", "s", " ", "&", " ",
           "U", "t", "i", "l", "i", "t", "i", "e", "s">>
    [] name = "Travel" -> <<"T", "r", "a", "v", "e", "l">>
    [] name = "Personal Care" ->
         <<"P", "e", "r", "s", "o", "n",
           "a", "l", " ", "C", "a", "r", "e">>
    [] name = "Subscriptions" ->
         <<"S", "u", "b", "s", "c", "r",
           "i", "p", "t", "i", "o", "n", "s">>
    [] name = "Gifts & Donations" ->
         <<"G", "i", "f", "t", "s", " ", "&", " ",
           "D", "o", "n", "a", "t", "i", "o", "n", "s">>
    [] name = "Other" -> <<"O", "t", "h", "e", "r">>
    [] name = "Cash" -> <<"C", "a", "s", "h">>
    [] name = "Credit Card" ->
         <<"C", "r", "e", "d", "i",
           "t", " ", "C", "a", "r", "d">>
    [] name = "Debit Card" ->
         <<"D", "e", "b", "i", "t",
           " ", "C", "a", "r", "d">>
    [] name = "Bank Transfer" ->
         <<"B", "a", "n", "k", " ", "T",
           "r", "a", "n", "s", "f", "e", "r">>
    [] name = "Digital Wallet" ->
         <<"D", "i", "g", "i", "t", "a", "l",
           " ", "W", "a", "l", "l", "e", "t">>
    [] name = "Check" -> <<"C", "h", "e", "c", "k">>
    [] OTHER -> <<>>

\* {$regex: q, $options: 'i'} for a q of letters, digits and spaces
RegexTest(q, text) ==
  \E i \in 1..(Len(text) - Len(q) + 1) :
    \A j \in 1..Len(q) : toLowerCase(text[i + j - 1]) = toLowerCase(q[j])

SearchMatch(ecoll, userId, q) ==
  {e \in ecoll :
     /\ e.userId = userId
     /\ \/ RegexTest(q, e.description)
        \/ RegexTest(q, Letters(e.category))
        \/ RegexTest(q, Letters(e.paymentMethod))
        \/ \E i \in DOMAIN e.tags : RegexTest(q, e.tags[i])}

\* the filter of getExpenses: category "" and a NoDate bound are absent
ExpenseFilterMatch(ecoll, userId, query) ==
  {e \in ecoll :
     /\ e.userId = userId
     /\ (query.category # "" => e.category = query.category)
     /\ (query.startDate # NoDate => DateLE(query.startDate, e.date))
     /\ (query.endDate # NoDate => DateLE(e.date, query.endDate))}

RECURSIVE SortByDate(_, _)
\* sort({date: -1}) or ({date: 1}); expenses of one date in _id order
SortByDate(S, sortOrder) ==
  IF S = {} THEN <<>>
  ELSE LET first == CHOOSE x \in S : \A y \in S :
                      \/ x.date # y.date
                           /\ IF sortOrder = "desc" THEN DateLE(y.date, x.date)
                                                    ELSE DateLE(x.date, y.date)
                      \/ x.date = y.date /\ x._id <= y._id
       IN <<first>> \o SortByDate(S \ {first}, sortOrder)

\* .skip(skip).limit(limit)
SkipLimit(seq, skip, limit) ==
  SubSeq(seq, skip + 1, IF skip + limit < Len(seq) THEN skip + limit
                                                   ELSE Len(seq))

\* Math.ceil(total / limit), total >= 0 and limit > 0
MathCeil(total, limit) == (total + limit - 1) \div limit

Pagination(page, limit, total) ==
  [currentPage |-> page, totalPages |-> MathCeil(total, limit),
   totalItems |-> total, itemsPerPage |-> limit]

getExpensesFind(s, u, query) ==
  /\ inflight[s] = Idle
  /\ LET skip == (query.page - 1) * query.limit
         found == SkipLimit(SortByDate(ExpenseFilterMatch(expenses, u, query),
                                       query.sortOrder),
                            skip, query.limit)
     IN inflight' = [inflight EXCEPT ![s] =
          [op |-> "getExpenses", user |-> u, query |-> query,
           expenses |-> found]]
  /\ UNCHANGED <<users, expenses, budgets, nextId, last, now, files>>

getExpensesCount(s) ==
  /\ inflight[s].op = "getExpenses"
  /\ LET r == inflight[s]
         total == Cardinality(ExpenseFilterMatch(expenses, r.user, r.query))
     IN last' = ResponseData("getExpenses", r.user, 200, "",
                  [valid |-> TRUE, dup |-> FALSE, query |-> r.query],
                  [expenses |-> r.expenses,
                   pagination |-> Pagination(r.query.page, r.query.limit,
                                             total)])
  /\ inflight' = [inflight EXCEPT ![s] = Idle]
  /\ UNCHANGED <<users, expenses, budgets, nextId, now, files>>

searchExpensesFind(s, u, query) ==
  /\ inflight[s] = Idle
  /\ IF Len(Trim(query.q)) < 2
       THEN /\ last' = Response("searchExpenses", u, 400,
                         "Search query must be at least 2 characters long",
                         [valid |-> FALSE, dup |-> FALSE, query |-> query])
            /\ UNCHANGED inflight
       ELSE LET skip == (query.page - 1) * query.limit
                found == SkipLimit(SortByDate(SearchMatch(expenses, u, query.q),
                                              "desc"),
                                   skip, query.limit)
            IN /\ inflight' = [inflight EXCEPT ![s] =
                     [op |-> "searchExpenses", user |-> u, query |-> query,
                      expenses |-> found]]
               /\ UNCHANGED last
  /\ UNCHANGED <<users, expenses, budgets, nextId, now, files>>

searchExpensesCount(s) ==
  /\ inflight[s].op = "searchExpenses"
  /\ LET r == inflight[s]
         total == Cardinality(SearchMatch(expenses, r.user, r.query.q))
     IN last' = ResponseData("searchExpenses", r.user, 200, "",
                  [valid |-> TRUE, dup |-> FALSE, query |-> r.query],
                  [expenses |-> r.expenses,
                   pagination |-> Pagination(r.query.page, r.query.limit,
                                             total)])
  /\ inflight' = [inflight EXCEPT ![s] = Idle]
  /\ UNCHANGED <<users, expenses, budgets, nextId, now, files>>

(***************************************************************************)
(* The expense endpoints under concurrent requests, from an empty Expense  *)
(* collection and one budget of the current month.                         *)
(***************************************************************************)
AmountInputs == {0, 1, 99999999, 100000000}

ExpenseBodies ==
  [amount : AmountInputs, category : {"Travel"}, date : {NoDate},
   paymentMethod : {"Cash"}, description : {<<"t", "a", "x", "i", " ">>},
   tags : {NoTags}]

UpdateAmountInputs == {0, 8500}

ExpenseUpdateBodies ==
  [amount : UpdateAmountInputs, category : {"Travel"}, date : {NoDate},
   paymentMethod : {"Cash"}, description : {<<"b", "u", "s">>},
   tags : {NoTags}]

InitExpense ==
  /\ users = {}
  /\ expenses = {}
  /\ budgets = {Budget(1, "u1", "Travel", 10000, June2024, TRUE,
                       [enabled |-> TRUE, threshold |-> THRESHOLD_DEFAULT])}
  /\ nextId = 1
  /\ inflight = [s \in Slots |-> Idle]
  /\ last = NoResponse
  /\ now \in NowInputs
  /\ files = {}

NextExpense ==
  \/ \E s \in Slots, u \in UserIds, body \in ExpenseBodies :
       createExpenseInsert(s, u, body)
  \/ \E s \in Slots : createExpenseBudgets(s)
  \/ \E s \in Slots : createExpenseAlerts(s)
  \/ \E u \in UserIds, id \in 1..MaxIds, body \in ExpenseUpdateBodies,
        setUserId \in SetUserIdInputs :
       updateExpense(u, id, body, setUserId)
  \/ \E u \in UserIds, id \in 1..MaxIds : deleteExpense(u, id)
  \/ \E u \in UserIds, id \in 1..MaxIds : getExpense(u, id)

SpecExpense == InitExpense /\ [][NextExpense]_vars

(***************************************************************************)
(* C8: every stored Expense has an amount above 0 and at most 999999.99,   *)
(* whatever createExpense and updateExpense requests ran; a create with    *)
(* amount 0 or 1000000 is answered 400 "Validation failed" and has stored  *)
(* nothing.                                                                *)
(***************************************************************************)
C8_AmountInRange ==
  /\ \A e \in expenses : e.amount > 0 /\ e.amount <= 99999999
  /\ (last.op = "createExpense" /\ last.info.amount \in {0, 100000000})
       => last.status = 400 /\ ~last.info.stored

\* a create with amount 1000000 was refused next to stored expenses of 0.01
\* and 999999.99
C8_Witness ==
  /\ last.op = "createExpense" /\ last.info.amount = 100000000
  /\ last.status = 400
  /\ {e.amount : e \in expenses} = {1, 99999999}

(***************************************************************************)
(* Listing and searching next to concurrent deletes, over stores drawn     *)
(* from bounded sets.                                                      *)
(***************************************************************************)
MaxPageExpenses == 3

PageExpenseInputs ==
  WithIds(
    <<Expense(0, "u1", 2000, "Travel", JSDate(2024, 5, 10, 12, 0, 0, 0),
              "Cash", <<"t", "a", "x", "i">>, <<>>),
      Expense(0, "u1", 3000, "Travel", JSDate(2024, 5, 11, 12, 0, 0, 0),
              "Credit Card", <<"b", "u", "s">>, <<<<"T", "a", "g">>>>),
      Expense(0, "u1", 4000, "Food & Dining", JSDate(2024, 5, 12, 12, 0, 0, 0),
              "Check", <<"l", "u", "n", "c", "h">>, <<>>),
      Expense(0, "u2", 5000, "Travel", JSDate(2024, 5, 13, 12, 0, 0, 0),
              "Cash", <<"t", "a", "x", "i">>, <<>>)>>)

InitPage ==
  /\ users = {}
  /\ expenses \in {S \in SUBSET PageExpenseInputs :
                     Cardinality(S) <= MaxPageExpenses}
  /\ budgets = {}
  /\ nextId = 1
  /\ inflight = [s \in Slots |-> Idle]
  /\ last = NoResponse
  /\ now \in NowInputs
  /\ files = {}

ListQueries ==
  [page : {1, 3}, limit : {2}, category : {"", "Travel"},
   startDate : {NoDate}, endDate : {JSDate(2024, 5, 12, 12, 0, 0, 0)},
   sortOrder : {"desc"}]

SearchQueries ==
  [page : {2}, limit : {1}, q : {<<"c", "A">>, <<" ", "t", " ">>}]

NextPage ==
  \/ \E s \in Slots, u \in UserIds, query \in ListQueries :
       getExpensesFind(s, u, query)
  \/ \E s \in Slots : getExpensesCount(s)
  \/ \E s \in Slots, u \in UserIds, query \in SearchQueries :
       searchExpensesFind(s, u, query)
  \/ \E s \in Slots : searchExpensesCount(s)
  \/ \E u \in UserIds, id \in 1..Len(SetToSeq(PageExpenseInputs)) :
       deleteExpense(u, id)

SpecPage == InitPage /\ [][NextPage]_vars

(***************************************************************************)
(* C7: a getExpenses or searchExpenses response has totalPages =           *)
(* ceil(totalItems / itemsPerPage), totalItems being the number of the     *)
(* owner's expenses that match the filter, and a page beyond totalPages    *)
(* comes back as an empty list with a success status.                      *)
(***************************************************************************)
C7_Pagination ==
  (last.op \in {"getExpenses", "searchExpenses"} /\ last.info.valid) =>
    LET pg == last.data.pagination
        matching == IF last.op = "getExpenses"
                      THEN ExpenseFilterMatch(expenses, last.user,
                                              last.info.query)
                      ELSE SearchMatch(expenses, last.user, last.info.query.q)
    IN /\ last.status = 200
       /\ pg.totalItems = Cardinality(matching)
       /\ pg.totalPages * pg.itemsPerPage >= pg.totalItems
       /\ (pg.totalPages - 1) * pg.itemsPerPage < pg.totalItems
       /\ (pg.currentPage > pg.totalPages => last.data.expenses = <<>>)

(***************************************************************************)
(* The owner-scoped endpoints of two users over stores that hold records   *)
(* of both.                                                                *)
(***************************************************************************)
OwnerExpenseInputs ==
  WithIds(
    <<Expense(0, "u1", 2000, "Travel", JSDate(2024, 5, 10, 12, 0, 0, 0),
              "Cash", <<"t", "a", "x", "i">>, <<>>),
      Expense(0, "u2", 3000, "Travel", JSDate(2024, 5, 11, 12, 0, 0, 0),
              "Cash", <<"t", "a", "x", "i">>, <<>>)>>)

OwnerBudgetInputs ==
  WithIds(
    <<Budget(0, "u1", "Travel", 10000, June2024, TRUE,
             [enabled |-> TRUE, threshold |-> 80]),
      Budget(0, "u2", "Travel", 20000, June2024, TRUE,
             [enabled |-> TRUE, threshold |-> 80]),
      Budget(0, "u1", "Food & Dining", 10000, June2024, TRUE,
             [enabled |-> TRUE, threshold |-> 80])>>)

InitOwner ==
  /\ users = {}
  /\ expenses \in SUBSET OwnerExpenseInputs
  /\ budgets \in SUBSET OwnerBudgetInputs
  /\ nextId = 1
  /\ inflight = [s \in Slots |-> Idle]
  /\ last = NoResponse
  /\ now \in NowInputs
  /\ files = {}

OwnerIds == 1..3

OwnerBudgetBodies ==
  [category : {"Travel"}, amountLimit : {10000}, monthYear : {NoMonth},
   notifications : {NoNotifications}]

OwnerListQueries ==
  [page : {1}, limit : {2}, category : {"", "Travel"}, startDate : {NoDate},
   endDate : {NoDate}, sortOrder : {"desc"}]

OwnerSearchInputs == {<<"t", "a">>, <<"c", "a", "s", "h">>}

NextOwner ==
  \/ \E u \in UserIds, id \in OwnerIds : getExpense(u, id)
  \/ \E u \in UserIds, id \in OwnerIds, body \in ExpenseUpdateBodies,
        setUserId \in SetUserIdInputs :
       updateExpense(u, id, body, setUserId)
  \/ \E u \in UserIds, id \in OwnerIds : deleteExpense(u, id)
  \/ \E u \in UserIds, id \in OwnerIds, body \in OwnerBudgetBodies,
        setUserId \in SetUserIdInputs :
       updateBudget(u, id, body, "absent", setUserId)
  \/ \E u \in UserIds, id \in OwnerIds : deleteBudget(u, id)
  \/ \E u \in UserIds : getBudgetStatus(u, NoMonth)

SpecOwner == InitOwner /\ [][NextOwner]_vars

Own(coll, u) == {d \in coll : d.userId = u}

(***************************************************************************)
(* C6: whatever request a user sends in a reachable state, the records it  *)
(* finds, lists, searches or aggregates are that user's, the response is   *)
(* the one the request gets when the store holds that user's records only, *)
(* and every record of another user is left as it was.                     *)
(***************************************************************************)
C6_OwnerScoping ==
  \A u \in UserIds :
    LET oe == Own(expenses, u)
        ob == Own(budgets, u)
    IN /\ \A id \in OwnerIds :
            /\ FindExpenseById(expenses, id, u) = FindExpenseById(oe, id, u)
            /\ FindBudgetById(budgets, id, u) = FindBudgetById(ob, id, u)
       /\ \A query \in OwnerListQueries :
            ExpenseFilterMatch(expenses, u, query)
              = ExpenseFilterMatch(oe, u, query)
       /\ \A q \in OwnerSearchInputs :
            SearchMatch(expenses, u, q) = SearchMatch(oe, u, q)
       /\ BudgetStatusOf(budgets, expenses, u, June2024)
            = BudgetStatusOf(ob, oe, u, June2024)
       /\ \A id \in OwnerIds, setUserId \in SetUserIdInputs :
            /\ \A body \in ExpenseUpdateBodies :
                 LET r == updateExpenseResult(expenses, u, id, body, setUserId)
                     a == updateExpenseResult(oe, u, id, body, setUserId)
                 IN /\ r.status = a.status /\ r.message = a.message
                    /\ (expenses \ oe) \subseteq r.expenses
            /\ \A body \in OwnerBudgetBodies :
                 LET r == updateBudgetResult(budgets, u, id, body, "absent",
                                             setUserId)
                     a == updateBudgetResult(ob, u, id, body, "absent",
                                             setUserId)
                 IN /\ r.status = a.status /\ r.message = a.message
                    /\ (budgets \ ob) \subseteq r.budgets
       /\ \A id \in OwnerIds :
            /\ LET r == deleteExpenseResult(expenses, u, id)
                   a == deleteExpenseResult(oe, u, id)
               IN /\ r.status = a.status
                  /\ (expenses \ oe) \subseteq r.expenses
            /\ LET r == deleteBudgetResult(budgets, u, id)
                   a == deleteBudgetResult(ob, u, id)
               IN /\ r.status = a.status
                  /\ (budgets \ ob) \subseteq r.budgets

(***************************************************************************)
(* Users and credentials.  A username or the text of a password is a       *)
(* sequence of characters.  A password value has the JSON type it arrived  *)
(* with and the number of times bcrypt was applied to it: a plaintext has  *)
(* rounds 0, the hash of a plaintext rounds 1.  Clients send plaintexts:   *)
(* a hash is salted and leaves the server in no response.                  *)
(***************************************************************************)
USERNAME_MIN == 3
USERNAME_MAX == 30
PASSWORD_MIN == 6

Digits == <<"0", "1", "2", "3", "4", "5", "6", "7", "8", "9">>

IsUpper(c) == \E i \in 1..26 : UpperCase[i] = c

IsLower(c) == \E i \in 1..26 : LowerCase[i] = c

IsDigit(c) == \E i \in 1..10 : Digits[i] = c

Plaintext(type, text) == [type |-> type, text |-> text, rounds |-> 0]

NoPassword == Plaintext("undefined", <<>>)

\* a value assigned to a path of type String
CastString(v) == [v EXCEPT !.type = "string"]

\* bcrypt.hash(s, saltRounds)
bcryptHash(s) == [type |-> "string", text |-> s.text, rounds |-> s.rounds + 1]

\* bcrypt.compare(s, hash): rejects an argument that is not a string
bcryptCompare(s, hash) ==
  IF s.type # "string" \/ hash.type # "string" THEN "throws"
  ELSE IF hash = bcryptHash(s) THEN "true" ELSE "false"

PasswordComparisonFailed ==
  [status |-> 0, message |-> "Password comparison failed"]

\* userSchema.methods.comparePassword
comparePassword(user, candidatePassword) ==
  bcryptCompare(candidatePassword, user.password)

\* userSchema.pre('save'): the password is hashed when it was modified
preSaveKeepsPassword(password, isModified) == password

preSave(password, isModified) ==
  IF ~isModified THEN password ELSE bcryptHash(password)

User(id, username, email, password) ==
  [_id |-> id, username |-> username, email |-> email, password |-> password]

\* the fields of a user that the auth responses carry
UserView(user) ==
  [id |-> user._id, username |-> user.username, email |-> user.email]

\* generateTokenPair(user): the payload of both tokens
TokenPayload(user) ==
  [userId |-> user._id, username |-> user.username, email |-> user.email]

WellFormedEmails == {"a@x.org", "b@x.org"}

\* isEmail
isEmail(email) == email \in WellFormedEmails

usernameValid(username) ==
  /\ Len(Trim(username)) >= USERNAME_MIN
  /\ Len(Trim(username)) <= USERNAME_MAX
  /\ \A i \in DOMAIN Trim(username) :
       LET c == Trim(username)[i]
       IN IsUpper(c) \/ IsLower(c) \/ IsDigit(c) \/ c = "_"

\* isLength({min: 6}) and /^(?=.*[a-z])(?=.*[A-Z])(?=.*\d)/
passwordPolicy(password) ==
  /\ Len(password.text) >= PASSWORD_MIN
  /\ \E i \in DOMAIN password.text : IsLower(password.text[i])
  /\ \E i \in DOMAIN password.text : IsUpper(password.text[i])
  /\ \E i \in DOMAIN password.text : IsDigit(password.text[i])

\* errors.array(): the failing fields, each with the value submitted
validateSignup(body) ==
  {e \in {[path |-> "username", value |-> Plaintext("string", body.username)],
          [path |-> "email", value |-> Plaintext("string", <<body.email>>)],
          [path |-> "password", value |-> body.password]} :
     \/ e.path = "username" /\ ~usernameValid(body.username)
     \/ e.path = "email" /\ ~isEmail(body.email)
     \/ e.path = "password" /\ ~passwordPolicy(body.password)}

validateLogin(body) ==
  {e \in {[path |-> "email", value |-> Plaintext("string", <<body.email>>)],
          [path |-> "password", value |-> body.password]} :
     \/ e.path = "email" /\ ~isEmail(body.email)
     \/ e.path = "password" /\ body.password.text = <<>>}

\* the schema's validators, on the document before the pre-save hook
userSchemaValid(u) ==
  /\ usernameValid(u.username)
  /\ isEmail(u.email)
  /\ u.password.type = "string"
  /\ Len(u.password.text) >= PASSWORD_MIN

\* unique: true on username and on email
UserIndexAllows(doc, coll) ==
  \A u \in coll :
    u._id # doc._id => u.username # doc.username /\ u.email # doc.email

NoView == [id |-> 0]

\* the data of a response: the user and the tokens of a success, the errors
\* of a failed validation; createdAt and the token lifetimes are left out
AuthData(user) ==
  [user |-> UserView(user), tokens |-> TokenPayload(user), errors |-> {}]

ProfileData(user) ==
  [user |-> UserView(user), tokens |-> NoView, errors |-> {}]

ErrorData(errors) == [user |-> NoView, tokens |-> NoView, errors |-> errors]

FindUserById(id) == {u \in users : u._id = id}

\* findOne returns the first match in insertion order
FirstUser(S) == CHOOSE u \in S : \A v \in S : u._id <= v._id

(***************************************************************************)
(* signup: validation, the existence check (first await), User.create      *)
(* (second await).                                                         *)
(***************************************************************************)
signupCheck(s, body) ==
  /\ inflight[s] = Idle
  /\ CanAllocate
  /\ LET errors == validateSignup(body)
         username == Trim(body.username)
         existingUser ==
           {u \in users : u.email = body.email \/ u.username = username}
     IN IF errors # {}
          THEN /\ last' = ResponseData("signup", 0, 400, "Validation failed",
                                       NoInfo, ErrorData(errors))
               /\ UNCHANGED inflight
          ELSE IF existingUser # {}
            THEN /\ last' = ResponseData("signup", 0, 400,
                               IF FirstUser(existingUser).email = body.email
                                 THEN "Email already exists"
                                 ELSE "Username already exists",
                               [valid |-> TRUE, dup |-> TRUE], ErrorData({}))
                 /\ UNCHANGED inflight
            ELSE /\ inflight' = [inflight EXCEPT ![s] =
                       [op |-> "signup", username |-> username,
                        email |-> body.email, password |-> body.password]]
                 /\ UNCHANGED last
  /\ UNCHANGED <<users, expenses, budgets, nextId, now, files>>

signupCreate(s) ==
  /\ inflight[s].op = "signup"
  /\ LET r == inflight[s]
         doc == User(nextId, r.username, r.email, CastString(r.password))
         user == [doc EXCEPT !.password = preSave(doc.password, TRUE)]
         info == [valid |-> TRUE, dup |-> ~UserIndexAllows(doc, users),
                  submitted |-> r.password]
     IN IF ~userSchemaValid(doc)
          THEN /\ last' = ResponseData("signup", 0,
                             ErrorStatus(ValidationError),
                             ValidationError.message, info, ErrorData({}))
               /\ UNCHANGED <<users, nextId>>
          ELSE IF ~UserIndexAllows(doc, users)
            THEN /\ last' = ResponseData("signup", 0,
                               ErrorStatus(DuplicateKeyError),
                               DuplicateKeyError.message, info, ErrorData({}))
                 /\ UNCHANGED <<users, nextId>>
            ELSE /\ users' = users \cup {user}
                 /\ nextId' = nextId + 1
                 /\ last' = ResponseData("signup", user._id, 201,
                               "User registered successfully", info,
                               AuthData(user))
  /\ inflight' = [inflight EXCEPT ![s] = Idle]
  /\ UNCHANGED <<expenses, budgets, now, files>>

(***************************************************************************)
(* login: validation, User.findOne({email}) (first await), then            *)
(* comparePassword on the user found (second await).                       *)
(***************************************************************************)
LoginInfo(cause) == [valid |-> TRUE, dup |-> FALSE, cause |-> cause]

loginFind(s, body) ==
  /\ inflight[s] = Idle
  /\ LET errors == validateLogin(body)
         user == {u \in users : u.email = body.email}
     IN IF errors # {}
          THEN /\ last' = ResponseData("login", 0, 400, "Validation failed",
                                       LoginInfo("validation"),
                                       ErrorData(errors))
               /\ UNCHANGED inflight
          ELSE IF user = {}
            THEN /\ last' = ResponseData("login", 0, 401,
                                         "Invalid email or password",
                                         LoginInfo("noSuchEmail"),
                                         ErrorData({}))
                 /\ UNCHANGED inflight
            ELSE /\ inflight' = [inflight EXCEPT ![s] =
                       [op |-> "login", user |-> FirstUser(user),
                        password |-> body.password]]
                 /\ UNCHANGED last
  /\ UNCHANGED <<users, expenses, budgets, nextId, now, files>>

loginCompare(s) ==
  /\ inflight[s].op = "login"
  /\ LET r == inflight[s]
         isPasswordValid == comparePassword(r.user, r.password)
     IN last' =
          IF isPasswordValid = "throws"
            THEN ResponseData("login", r.user._id,
                              ErrorStatus(PasswordComparisonFailed),
                              PasswordComparisonFailed.message,
                              LoginInfo("wrongPassword"), ErrorData({}))
          ELSE IF isPasswordValid = "false"
            THEN ResponseData("login", r.user._id, 401,
                              "Invalid email or password",
                              LoginInfo("wrongPassword"), ErrorData({}))
          ELSE ResponseData("login", r.user._id, 200, "Login successful",
                            LoginInfo("none"), AuthData(r.user))
  /\ inflight' = [inflight EXCEPT ![s] = Idle]
  /\ UNCHANGED <<users, expenses, budgets, nextId, now, files>>

(***************************************************************************)
(* getProfile: the fields of req.user, the user of the token.              *)
(***************************************************************************)
getProfile(id) ==
  /\ FindUserById(id) # {}
  /\ last' = ResponseData("getProfile", id, 200, "", NoInfo,
                          ProfileData(FirstUser(FindUserById(id))))
  /\ UNCHANGED <<users, expenses, budgets, nextId, inflight, now, files>>

(***************************************************************************)
(* updateProfile: the check for another user with the username or email    *)
(* (first await), then findByIdAndUpdate with runValidators (second        *)
(* await).  An absent username is <<>>, an absent email "".                *)
(***************************************************************************)
updateProfileCheck(s, id, body) ==
  /\ inflight[s] = Idle
  /\ FindUserById(id) # {}
  /\ LET username == Trim(body.username)
         existingUser ==
           {u \in users :
              /\ u._id # id
              /\ \/ username # <<>> /\ u.username = username
                 \/ body.email # "" /\ u.email = body.email}
     IN IF existingUser # {}
          THEN /\ last' = ResponseData("updateProfile", id, 400,
                             IF FirstUser(existingUser).username = username
                               THEN "Username already exists"
                               ELSE "Email already exists",
                             [valid |-> TRUE, dup |-> TRUE], ErrorData({}))
               /\ UNCHANGED inflight
          ELSE /\ inflight' = [inflight EXCEPT ![s] =
                     [op |-> "updateProfile", id |-> id,
                      username |-> username, email |-> body.email]]
               /\ UNCHANGED last
  /\ UNCHANGED <<users, expenses, budgets, nextId, now, files>>

updateProfileUpdate(s) ==
  /\ inflight[s].op = "updateProfile"
  /\ LET r == inflight[s]
         old == FirstUser(FindUserById(r.id))
         new == [old EXCEPT
                   !.username = IF r.username # <<>> THEN r.username ELSE @,
                   !.email = IF r.email # "" THEN r.email ELSE @]
     IN IF ~(usernameValid(new.username) /\ isEmail(new.email))
          THEN /\ last' = ResponseData("updateProfile", r.id,
                             ErrorStatus(ValidationError),
                             ValidationError.message, NoInfo, ErrorData({}))
               /\ UNCHANGED users
          ELSE IF ~UserIndexAllows(new, users)
            THEN /\ last' = ResponseData("updateProfile", r.id,
                               ErrorStatus(DuplicateKeyError),
                               DuplicateKeyError.message,
                               [valid |-> TRUE, dup |-> TRUE], ErrorData({}))
                 /\ UNCHANGED users
            ELSE /\ users' = (users \ {old}) \cup {new}
                 /\ last' = ResponseData("updateProfile", r.id, 200,
                               "Profile updated successfully", NoInfo,
                               ProfileData(new))
  /\ inflight' = [inflight EXCEPT ![s] = Idle]
  /\ UNCHANGED <<expenses, budgets, nextId, now, files>>

(***************************************************************************)
(* changePassword: User.findById (first await), comparePassword on the     *)
(* document found, then user.save() (second await), which validates and    *)
(* writes the password if the assignment modified it.                      *)
(***************************************************************************)
changePasswordFind(s, id, body) ==
  /\ inflight[s] = Idle
  /\ FindUserById(id) # {}
  /\ inflight' = [inflight EXCEPT ![s] =
       [op |-> "changePassword", user |-> FirstUser(FindUserById(id)),
        currentPassword |-> body.currentPassword,
        newPassword |-> body.newPassword]]
  /\ UNCHANGED <<users, expenses, budgets, nextId, last, now, files>>

changePasswordSave(s) ==
  /\ inflight[s].op = "changePassword"
  /\ LET r == inflight[s]
         isCurrentPasswordValid == comparePassword(r.user, r.currentPassword)
         password == CastString(r.newPassword)
         isModified == password # r.user.password
         stored == FirstUser(FindUserById(r.user._id))
         info == [valid |-> TRUE, dup |-> FALSE, submitted |-> r.newPassword]
     IN IF isCurrentPasswordValid = "throws"
          THEN /\ last' = ResponseData("changePassword", r.user._id,
                             ErrorStatus(PasswordComparisonFailed),
                             PasswordComparisonFailed.message, info,
                             ErrorData({}))
               /\ UNCHANGED users
          ELSE IF isCurrentPasswordValid = "false"
            THEN /\ last' = ResponseData("changePassword", r.user._id, 400,
                               "Current password is incorrect", info,
                               ErrorData({}))
                 /\ UNCHANGED users
          ELSE IF r.newPassword.type = "undefined"
                    \/ Len(password.text) < PASSWORD_MIN
            THEN /\ last' = ResponseData("changePassword", r.user._id,
                               ErrorStatus(ValidationError),
                               ValidationError.message, info, ErrorData({}))
                 /\ UNCHANGED users
            ELSE /\ users' =
                      IF isModified
                        THEN (users \ {stored}) \cup
                               {[stored EXCEPT
                                   !.password = preSave(password, isModified)]}
                        ELSE users
                 /\ last' = ResponseData("changePassword", r.user._id, 200,
                               "Password changed successfully", info,
                               ErrorData({}))
  /\ inflight' = [inflight EXCEPT ![s] = Idle]
  /\ UNCHANGED <<expenses, budgets, nextId, now, files>>

(***************************************************************************)
(* The auth endpoints under concurrent requests, from an empty User        *)
(* collection.                                                             *)
(***************************************************************************)
Passw0 == Plaintext("string", <<"P", "a", "s", "s", "w", "0">>)

Secre7 == Plaintext("string", <<"S", "e", "c", "r", "e", "7">>)

Weak == Plaintext("string", <<"a", "b", "c">>)

\* the JSON number 123456
Number123456 == Plaintext("number", <<"1", "2", "3", "4", "5", "6">>)

Ali == <<"a", "l", "i">>

Bob == <<"b", "o", "b">>

SignupBodies ==
  {[username |-> Ali, email |-> "a@x.org", password |-> Passw0],
   [username |-> Bob, email |-> "b@x.org", password |-> Secre7],
   [username |-> <<" ">> \o Bob, email |-> "a@x.org", password |-> Passw0],
   [username |-> Bob, email |-> "nope", password |-> Weak]}

LoginBodies ==
  [email : {"a@x.org"}, password : {Passw0, Secre7, Number123456}]
    \cup {[email |-> "nope", password |-> Plaintext("string", <<>>)]}

ProfileBodies ==
  {[username |-> Bob, email |-> ""], [username |-> <<"a">>, email |-> ""]}

PasswordChangeBodies ==
  {[currentPassword |-> Passw0, newPassword |-> Number123456],
   [currentPassword |-> Number123456, newPassword |-> Secre7],
   [currentPassword |-> Secre7, newPassword |-> NoPassword]}

InitAuth ==
  /\ users = {}
  /\ expenses = {}
  /\ budgets = {}
  /\ nextId = 1
  /\ inflight = [s \in Slots |-> Idle]
  /\ last = NoResponse
  /\ now \in NowInputs
  /\ files = {}

NextAuth ==
  \/ \E s \in Slots, body \in SignupBodies : signupCheck(s, body)
  \/ \E s \in Slots : signupCreate(s)
  \/ \E s \in Slots, body \in LoginBodies : loginFind(s, body)
  \/ \E s \in Slots : loginCompare(s)
  \/ \E id \in 1..MaxIds : getProfile(id)
  \/ \E s \in Slots, id \in 1..MaxIds, body \in ProfileBodies :
       updateProfileCheck(s, id, body)
  \/ \E s \in Slots : updateProfileUpdate(s)
  \/ \E s \in Slots, id \in 1..MaxIds, body \in PasswordChangeBodies :
       changePasswordFind(s, id, body)
  \/ \E s \in Slots : changePasswordSave(s)

SpecAuth == InitAuth /\ [][NextAuth]_vars

\* the values a response carries: the fields of its user and of its token
\* payload, and the values echoed with validation errors
ResponseFields ==
  (DOMAIN last.data.user) \cup (DOMAIN last.data.tokens)

EchoedValues == {e.value : e \in last.data.errors}

\* the plaintext a stored hash was made from
PlaintextOf(hash) == [hash EXCEPT !.rounds = @ - 1]

(***************************************************************************)
(* C9: a response of signup, login, getProfile or updateProfile has no     *)
(* password field and carries neither the stored hash of any user nor the  *)
(* plaintext of the user it is about; every stored password is a bcrypt    *)
(* hash, and after a signup or a successful change-password it is not the  *)
(* plaintext submitted but its hash.                                       *)
(***************************************************************************)
C9_PasswordNeverExposed ==
  /\ last.op \in {"signup", "login", "getProfile", "updateProfile"} =>
       /\ "password" \notin ResponseFields
       /\ \A u \in users :
            /\ u.password \notin EchoedValues
            /\ u._id = last.user => PlaintextOf(u.password) \notin EchoedValues
  /\ \A u \in users : u.password.rounds = 1 /\ u.password.type = "string"
  /\ (last.op \in {"signup", "changePassword"} /\ last.status \in {200, 201}) =>
       \A u \in users :
         u._id = last.user =>
           /\ u.password # CastString(last.info.submitted)
           /\ u.password = bcryptHash(CastString(last.info.submitted))

\* a password change to the JSON number 123456 went through, and the user
\* signed up with Passw0 before
C9_Witness ==
  /\ last.op = "changePassword" /\ last.status = 200
  /\ last.info.submitted = Number123456
  /\ \E u \in users :
       u._id = last.user /\ u.password = bcryptHash(CastString(Number123456))

(***************************************************************************)
(* C10: a login that fails on a wrong password for a registered email gets *)
(* the response that a login with an email of no user gets: status 401     *)
(* and the same body.                                                      *)
(***************************************************************************)
C10_LoginFailuresAlike ==
  (last.op = "login" /\ last.info.cause \in {"noSuchEmail", "wrongPassword"}) =>
    /\ last.status = 401
    /\ last.message = "Invalid email or password"
    /\ last.data = ErrorData({})

(***************************************************************************)
(* C11: no two users share a username and no two users share an email,     *)
(* whatever signup and updateProfile requests interleave; a signup whose   *)
(* username or email belongs to a user is answered 400 with the "already   *)
(* exists" message.                                                        *)
(***************************************************************************)
C11_UniqueIdentity ==
  /\ \A a, b \in users :
       (a.username = b.username \/ a.email = b.email) => a._id = b._id
  /\ (last.op = "signup" /\ last.info.dup) =>
       /\ last.status = 400
       /\ last.message \in {"Email already exists", "Username already exists"}

(***************************************************************************)
(* Export.  A CSV export finds the records (first await), writes the file  *)
(* exports/<prefix>-<timestamp>.csv (mkdir and writeRecords), sends it     *)
(* with res.download and unlinks it when the transfer is over.  The JSON   *)
(* export answers from the records found.                                  *)
(***************************************************************************)
\* the test `expenses.length === 0` / `budgets.length === 0`
NoRecordsNever(records) == FALSE

NoRecords(records) == Len(records) = 0

RECURSIVE SortBudgetsForExport(_)
\* sort({monthYear: -1, category: 1})
SortBudgetsForExport(S) ==
  IF S = {} THEN <<>>
  ELSE LET first == CHOOSE x \in S : \A y \in S :
                      \/ x.monthYear.y > y.monthYear.y
                      \/ /\ x.monthYear.y = y.monthYear.y
                         /\ x.monthYear.m > y.monthYear.m
                      \/ /\ x.monthYear = y.monthYear
                         /\ localeCompareRank(x.category)
                              <= localeCompareRank(y.category)
       IN <<first>> \o SortBudgetsForExport(S \ {first})

\* Budget.find({userId, ...(monthYear && {monthYear})})
BudgetExportMatch(bcoll, userId, monthYear) ==
  {b \in bcoll :
     b.userId = userId /\ (monthYear # NoMonth => b.monthYear = monthYear)}

RECURSIVE join(_)
\* tags.join(', ')
join(tags) ==
  IF Len(tags) = 0 THEN <<>>
  ELSE IF Len(tags) = 1 THEN tags[1]
  ELSE tags[1] \o <<",", " ">> \o join(Tail(tags))

\* a row of the expenses CSV; the date column is the day of toISOString()
ExpenseCsvRow(e) ==
  [date |-> e.date.day, category |-> e.category, amount |-> e.amount,
   paymentMethod |-> e.paymentMethod, description |-> e.description,
   tags |-> join(e.tags)]

BudgetCsvRow(b) ==
  [monthYear |-> b.monthYear, category |-> b.category,
   amountLimit |-> b.amountLimit, isActive |-> b.isActive,
   notificationsEnabled |-> b.notifications.enabled,
   notificationThreshold |-> b.notifications.threshold]

\* an expense of the JSON export
ExpenseJson(e) ==
  [id |-> e._id, amount |-> e.amount, category |-> e.category,
   date |-> e.date, paymentMethod |-> e.paymentMethod,
   description |-> e.description, tags |-> e.tags]

MapSeq(f(_), seq) == [i \in DOMAIN seq |-> f(seq[i])]

\* path.join(__dirname, '../exports', `${prefix}-${timestamp}.csv`)
ExportPath(prefix, timestamp) == [prefix |-> prefix, timestamp |-> timestamp]

ExportInfo(query, matched, wrote) ==
  [valid |-> TRUE, dup |-> FALSE, query |-> query, matched |-> matched,
   wrote |-> wrote]

exportExpensesToCSVFind(s, u, query) ==
  /\ inflight[s] = Idle
  /\ LET found == SortByDate(ExpenseFilterMatch(expenses, u, query), "desc")
     IN IF NoRecords(found)
          THEN /\ UNCHANGED <<inflight, files>>
               /\ last' = Response("exportExpensesToCSV", u, 404,
                            "No expenses found for the specified criteria",
                            ExportInfo(query, Len(found), files' # files))
          ELSE /\ inflight' = [inflight EXCEPT ![s] =
                     [op |-> "exportWrite", handler |-> "exportExpensesToCSV",
                      user |-> u, query |-> query, matched |-> Len(found),
                      prefix |-> "expenses",
                      rows |-> MapSeq(ExpenseCsvRow, found)]]
               /\ UNCHANGED <<last, files>>
  /\ UNCHANGED <<users, expenses, budgets, nextId, now>>

exportBudgetsToCSVFind(s, u, monthYear) ==
  /\ inflight[s] = Idle
  /\ LET found == SortBudgetsForExport(BudgetExportMatch(budgets, u, monthYear))
     IN IF NoRecords(found)
          THEN /\ UNCHANGED <<inflight, files>>
               /\ last' = Response("exportBudgetsToCSV", u, 404,
                            "No budgets found for the specified criteria",
                            ExportInfo(monthYear, Len(found), files' # files))
          ELSE /\ inflight' = [inflight EXCEPT ![s] =
                     [op |-> "exportWrite", handler |-> "exportBudgetsToCSV",
                      user |-> u, query |-> monthYear, matched |-> Len(found),
                      prefix |-> "budgets",
                      rows |-> MapSeq(BudgetCsvRow, found)]]
               /\ UNCHANGED <<last, files>>
  /\ UNCHANGED <<users, expenses, budgets, nextId, now>>

\* the timestamp is read when the handler resumes; writeRecords replaces a
\* file that is at the path
exportCSVWrite(s) ==
  /\ inflight[s].op = "exportWrite"
  /\ LET r == inflight[s]
         filepath == ExportPath(r.prefix, now)
     IN /\ files' = {f \in files : f.path # filepath}
                      \cup {[path |-> filepath, rows |-> r.rows]}
        /\ inflight' = [inflight EXCEPT ![s] =
             [r EXCEPT !.op = "exportDownload"] @@ [filepath |-> filepath]]
  /\ UNCHANGED <<users, expenses, budgets, nextId, last, now>>

\* res.download(filepath, filename, callback): the file at the path is sent;
\* with no file there the callback gets the error and nothing is sent
exportCSVDownload(s) ==
  /\ inflight[s].op = "exportDownload"
  /\ LET r == inflight[s]
         file == {f \in files : f.path = r.filepath}
     IN last' =
          IF file = {}
            THEN Response(r.handler, r.user, 0, "Error sending file",
                          ExportInfo(r.query, r.matched, TRUE))
            ELSE ResponseData(r.handler, r.user, 200, "",
                              ExportInfo(r.query, r.matched, TRUE),
                              [records |-> (CHOOSE f \in file : TRUE).rows])
  /\ inflight' = [inflight EXCEPT ![s] = [inflight[s] EXCEPT !.op = "exportUnlink"]]
  /\ UNCHANGED <<users, expenses, budgets, nextId, now, files>>

\* an unlink that leaves the file in place
unlinkNothing(fs, filepath) == fs

\* fs.unlink(filepath): the directory without the file at the path
unlink(fs, filepath) == {f \in fs : f.path # filepath}

\* fs.unlink(filepath).catch(console.error)
exportCSVUnlink(s) ==
  /\ inflight[s].op = "exportUnlink"
  /\ files' = unlink(files, inflight[s].filepath)
  /\ inflight' = [inflight EXCEPT ![s] = Idle]
  /\ UNCHANGED <<users, expenses, budgets, nextId, last, now>>

exportExpensesToJSON(u, query) ==
  /\ UNCHANGED <<users, expenses, budgets, nextId, inflight, now, files>>
  /\ LET found == SortByDate(ExpenseFilterMatch(expenses, u, query), "desc")
     IN last' =
          IF NoRecords(found)
            THEN Response("exportExpensesToJSON", u, 404,
                          "No expenses found for the specified criteria",
                          ExportInfo(query, Len(found), files' # files))
            ELSE ResponseData("exportExpensesToJSON", u, 200, "",
                              ExportInfo(query, Len(found), files' # files),
                              [records |-> MapSeq(ExpenseJson, found)])


(***************************************************************************)
(* The exports of two users over stores that hold records of both, next    *)
(* to concurrent deletes.                                                  *)
(***************************************************************************)
InitExport ==
  /\ users = {}
  /\ expenses \in SUBSET OwnerExpenseInputs
  /\ budgets \in {{}, OwnerBudgetInputs}
  /\ nextId = 1
  /\ inflight = [s \in Slots |-> Idle]
  /\ last = NoResponse
  /\ now \in NowInputs
  /\ files = {}

ExportQueries ==
  [category : {""},
   startDate : {NoDate, JSDate(2024, 6, 1, 0, 0, 0, 0)}, endDate : {NoDate}]

ExportMonthInputs == {NoMonth, [y |-> 2024, m |-> 7]}

NextExport ==
  \/ \E s \in Slots, u \in UserIds, query \in ExportQueries :
       exportExpensesToCSVFind(s, u, query)
  \/ \E s \in Slots, u \in UserIds, monthYear \in ExportMonthInputs :
       exportBudgetsToCSVFind(s, u, monthYear)
  \/ \E s \in Slots : exportCSVWrite(s)
  \/ \E s \in Slots : exportCSVDownload(s)
  \/ \E s \in Slots : exportCSVUnlink(s)
  \/ \E u \in UserIds, query \in ExportQueries : exportExpensesToJSON(u, query)
  \/ \E u \in UserIds, id \in OwnerIds : deleteExpense(u, id)

SpecExport == InitExport /\ [][NextExport]_vars

ExportHandlers ==
  {"exportExpensesToCSV", "exportExpensesToJSON", "exportBudgetsToCSV"}

(***************************************************************************)
(* C12: an export whose owner-scoped, filtered query finds no record       *)
(* answers 404 with the 'no records' message, writes no file and sends no  *)
(* payload; a file is written and a download or payload is sent only from  *)
(* a query that found at least one record.                                 *)
(***************************************************************************)
C12_NoRecordsIs404 ==
  /\ last.op \in ExportHandlers =>
       /\ last.info.matched = 0 <=> last.status = 404
       /\ last.status = 404 =>
            /\ last.message =
                 IF last.op = "exportBudgetsToCSV"
                   THEN "No budgets found for the specified criteria"
                   ELSE "No expenses found for the specified criteria"
            /\ last.data = <<>>
            /\ ~last.info.wrote
       /\ last.status = 200 => Len(last.data.records) >= 1
  /\ \A f \in files : Len(f.rows) >= 1
  /\ \A s \in Slots :
       inflight[s].op \in {"exportWrite", "exportDownload", "exportUnlink"}
         => inflight[s].matched >= 1

\* a user whose filter matches nothing gets the 404 while the file of
\* another export is in the exports directory
C12_Witness ==
  /\ last.op = "exportExpensesToCSV"
  /\ last.status = 404
  /\ last.info.matched = 0
  /\ Own(expenses, last.user) # {}
  /\ files # {}


(***************************************************************************)
(* Spending trends of a year.                                              *)
(***************************************************************************)
\* Expense.getYearlyTrends(userId, year): one group per month with expenses
\* between new Date(year, 0, 1) and new Date(year, 11, 31, 23, 59, 59)
getYearlyTrends(ecoll, userId, year) ==
  LET startDate == JSDate(year, 0, 1, 0, 0, 0, 0)
      endDate   == JSDate(year, 11, 31, 23, 59, 59, 0)
      matched   == {e \in ecoll :
                      /\ e.userId = userId
                      /\ DateLE(startDate, e.date) /\ DateLE(e.date, endDate)}
      group(m, y) == {e \in matched :
                        getMonth(e.date) + 1 = m /\ getFullYear(e.date) = y}
  IN {[_id |-> [month |-> m, year |-> y],
       totalAmount |-> SumAmount(group(m, y)),
       count |-> Cardinality(group(m, y))] :
        <<m, y>> \in {<<getMonth(e.date) + 1, getFullYear(e.date)>> :
                        e \in matched}}

\* parseInt(year) || new Date().getFullYear(); a year of 0 stands for an
\* absent or non-numeric parameter
targetYearOf(year) == IF year = 0 THEN getFullYear(now) ELSE year

\* Array.from({length: 12}, (_, index) => ...): element index + 1 of the
\* sequence is the array's element index
monthlyTrendsOf(yearlyTrends) ==
  [i \in 1..12 |->
     LET index == i - 1
         found == {trend \in yearlyTrends : trend._id.month = index + 1}
     IN IF found = {}
          THEN [month |-> index + 1, totalAmount |-> 0, count |-> 0]
          ELSE LET monthData == CHOOSE trend \in found : TRUE
               IN [month |-> index + 1,
                   totalAmount |-> MathRound(monthData.totalAmount * 100, 100),
                   count |-> monthData.count]]

\* GET /api/summary/trends?period=year&year=...
getSpendingTrends(u, year) ==
  /\ LET targetYear == targetYearOf(year)
     IN last' = ResponseData("getSpendingTrends", u, 200, "", NoInfo,
                  [period |-> "yearly", year |-> targetYear,
                   trends |-> monthlyTrendsOf(
                                getYearlyTrends(expenses, u, targetYear))])
  /\ UNCHANGED <<users, expenses, budgets, nextId, inflight, now, files>>

TrendExpenseInputs ==
  WithIds(
    <<Expense(0, "u1", 2000, "Travel", JSDate(2024, 2, 10, 12, 0, 0, 0),
              "Cash", <<"t", "a", "x", "i">>, <<>>),
      Expense(0, "u1", 500, "Food & Dining", JSDate(2024, 2, 31, 23, 0, 0, 0),
              "Cash", <<"t", "e", "a">>, <<>>),
      Expense(0, "u1", 3000, "Travel", JSDate(2024, 10, 1, 0, 0, 0, 0),
              "Cash", <<"t", "a", "x", "i">>, <<>>),
      Expense(0, "u1", 4000, "Travel", JSDate(2023, 2, 10, 12, 0, 0, 0),
              "Cash", <<"t", "a", "x", "i">>, <<>>),
      Expense(0, "u2", 5000, "Travel", JSDate(2024, 2, 10, 12, 0, 0, 0),
              "Cash", <<"t", "a", "x", "i">>, <<>>),
      Expense(0, "u1", 700, "Travel", JSDate(2024, 11, 31, 23, 59, 59, 500),
              "Cash", <<"t", "a", "x", "i">>, <<>>)>>)

InitTrends ==
  /\ users = {}
  /\ expenses \in SUBSET TrendExpenseInputs
  /\ budgets = {}
  /\ nextId = 1
  /\ inflight = [s \in Slots |-> Idle]
  /\ last = NoResponse
  /\ now \in NowInputs
  /\ files = {}

TrendYearInputs == {0, 2023, 2024}

NextTrends ==
  \E u \in UserIds, year \in TrendYearInputs : getSpendingTrends(u, year)

SpecTrends == InitTrends /\ [][NextTrends]_vars

\* the expenses of a user dated in a month (1..12) of a year
ExpensesOfMonthOfYear(ecoll, userId, month, year) ==
  {e \in ecoll : /\ e.userId = userId
                 /\ getFullYear(e.date) = year
                 /\ getMonth(e.date) + 1 = month}

(***************************************************************************)
(* C13: the yearly trends are twelve buckets, January to December in       *)
(* order, and the bucket of a month carries the total and the count of the *)
(* owner's expenses dated in that month of the target year, both zero when *)
(* there are none.                                                         *)
(***************************************************************************)
C13_TwelveMonthBuckets ==
  last.op = "getSpendingTrends" =>
    /\ Len(last.data.trends) = 12
    /\ \A i \in 1..12 :
         LET bucket == last.data.trends[i]
             dated == ExpensesOfMonthOfYear(expenses, last.user, i,
                                            last.data.year)
         IN /\ bucket.month = i
            /\ bucket.totalAmount = SumAmount(dated)
            /\ bucket.count = Cardinality(dated)


(***************************************************************************)
(* Creating expenses against budgets of the current month.                 *)
(***************************************************************************)
AlertAmountInputs == {0, 3000, 6000}

AlertBodies ==
  [amount : AlertAmountInputs, category : {"Travel"},
   date : {NoDate, JSDate(2024, 4, 20, 12, 0, 0, 0)},
   paymentMethod : {"Cash"}, description : {<<"t", "a", "x", "i">>},
   tags : {NoTags}]

AlertBudgetInputs ==
  {Budget(1, "u1", "Travel", 10000, June2024, TRUE,
          [enabled |-> TRUE, threshold |-> THRESHOLD_DEFAULT]),
   Budget(2, "u2", "Travel", 5000, June2024, TRUE,
          [enabled |-> TRUE, threshold |-> THRESHOLD_DEFAULT])}

InitAlert ==
  /\ users = {}
  /\ expenses = {}
  /\ budgets = AlertBudgetInputs
  /\ nextId = 1
  /\ inflight = [s \in Slots |-> Idle]
  /\ last = NoResponse
  /\ now \in NowInputs
  /\ files = {}

NextAlert ==
  \/ \E s \in Slots, u \in UserIds, body \in AlertBodies :
       createExpenseInsert(s, u, body)
  \/ \E s \in Slots : createExpenseBudgets(s)
  \/ \E s \in Slots : createExpenseAlerts(s)

SpecAlert == InitAlert /\ [][NextAlert]_vars

AlertsOfKind(kind) ==
  {i \in DOMAIN last.data.budgetAlerts : last.data.budgetAlerts[i].kind = kind}

(***************************************************************************)
(* C14: a createExpense answered with no other request in flight reports,  *)
(* for the owner's active budget of the current month and the expense's    *)
(* category, an over-limit alert exactly when the budget's spending as     *)
(* getBudgetStatus counts it after the create exceeds amountLimit, and a   *)
(* threshold alert exactly when that spending is within the limit and at   *)
(* least the threshold share of it; the currentSpending of an alert is     *)
(* that spending.                                                          *)
(***************************************************************************)
C14_AlertsMatchBudgetStatus ==
  (/\ last.op = "createExpense"
   /\ last.status = 201
   /\ \A s \in Slots : inflight[s] = Idle) =>
    \A b \in ActiveBudgetsOfMonth(budgets, last.user, ISOMonth(now)) :
      b.category = last.data.expense.category =>
        LET spending == SumAmount(BudgetSpendingMatch(expenses, b.userId,
                                                      b.category, b.monthYear))
        IN /\ AlertsOfKind("exceeded") # {} <=> spending > b.amountLimit
           /\ AlertsOfKind("threshold") # {} <=>
                /\ spending <= b.amountLimit
                /\ 100 * spending >= b.notifications.threshold * b.amountLimit
           /\ \A i \in DOMAIN last.data.budgetAlerts :
                last.data.budgetAlerts[i].currentSpending = spending


(***************************************************************************)
(* C15: no step of a createExpense request changes the Budgets; the step   *)
(* that stores the expense adds exactly one Expense, owned by the caller   *)
(* and with an _id no stored Expense has, and leaves every other Expense   *)
(* as it was; every other step of the request, a refused create included,  *)
(* leaves the Expenses unchanged.                                          *)
(***************************************************************************)
C15_CreateExpenseFrame ==
  [][/\ budgets' = budgets
     /\ \A s \in Slots :
          IF inflight[s] = Idle /\ inflight'[s] # Idle
            THEN LET created == inflight'[s].expense
                 IN /\ created.userId = inflight'[s].user
                    /\ \A e \in expenses : e._id # created._id
                    /\ expenses' = expenses \cup {created}
                    /\ Cardinality(expenses') = Cardinality(expenses) + 1
            ELSE inflight'[s] # inflight[s] => expenses' = expenses
     /\ inflight' = inflight => expenses' = expenses]_vars

\* a create of one user was answered with an alert next to the stored
\* expense of the other user, the budgets being those of the start
C15_Witness ==
  /\ last.op = "createExpense" /\ last.status = 201
  /\ last.data.budgetAlerts # <<>>
  /\ last.data.expense \in expenses
  /\ \E e \in expenses : e.userId # last.user
  /\ budgets = AlertBudgetInputs


(***************************************************************************)
(* Updating expenses with bodies that hold all or only some of the fields. *)
(* A field that is not in the body is NoAmount, "", <<>>, NoDate or NoTags.*)
(***************************************************************************)
NoAmount == 0 - 1

PartialUpdateBodies ==
  {[amount |-> 8500, category |-> "", date |-> NoDate, paymentMethod |-> "",
    description |-> <<>>, tags |-> NoTags],
   [amount |-> NoAmount, category |-> "Food & Dining", date |-> NoDate,
    paymentMethod |-> "", description |-> <<"t", "e", "a", " ">>,
    tags |-> NoTags],
   [amount |-> 8500, category |-> "Food & Dining", date |-> NoDate,
    paymentMethod |-> "Check", description |-> <<"t", "e", "a", " ">>,
    tags |-> [present |-> TRUE, list |-> <<<<"T", "a", "g">>>>]],
   [amount |-> 0, category |-> "", date |-> NoDate, paymentMethod |-> "",
    description |-> <<>>, tags |-> NoTags]}

InitUpdate ==
  /\ users = {}
  /\ expenses \in SUBSET OwnerExpenseInputs
  /\ budgets = {}
  /\ nextId = 1
  /\ inflight = [s \in Slots |-> Idle]
  /\ last = NoResponse
  /\ now \in NowInputs
  /\ files = {}

NextUpdate ==
  \/ \E u \in UserIds, id \in OwnerIds, body \in PartialUpdateBodies :
       updateExpense(u, id, body, "absent")
  \/ \E u \in UserIds, id \in OwnerIds : deleteExpense(u, id)

SpecUpdate == InitUpdate /\ [][NextUpdate]_vars

\* every field the body holds passes the rule validateExpense has for it
PresentFieldsValid(body) ==
  /\ body.amount # NoAmount =>
       body.amount >= AMOUNT_MIN /\ body.amount <= AMOUNT_MAX
  /\ body.category # "" => body.category \in expenseCategories
  /\ body.paymentMethod # "" => body.paymentMethod \in paymentMethods
  /\ body.description # <<>> =>
       /\ Len(Trim(body.description)) >= 1
       /\ Len(Trim(body.description)) <= DESCRIPTION_MAX

(***************************************************************************)
(* C16: an updateExpense of an expense the caller owns, with a body whose  *)
(* present fields are all valid, succeeds whichever fields are absent;     *)
(* afterwards the expense has the body's value in every field the body     *)
(* holds and its former value in every other field.                        *)
(***************************************************************************)
C16_PartialUpdateSucceeds ==
  (/\ last.op = "updateExpense"
   /\ last.info.before # {}
   /\ PresentFieldsValid(last.info.body)) =>
    /\ last.status = 200
    /\ \A old \in last.info.before : \E new \in last.info.after :
         LET body == last.info.body
         IN /\ new.amount =
                 IF body.amount # NoAmount THEN body.amount ELSE old.amount
            /\ new.category =
                 IF body.category # "" THEN body.category ELSE old.category
            /\ new.paymentMethod =
                 IF body.paymentMethod # "" THEN body.paymentMethod
                                            ELSE old.paymentMethod
            /\ new.description =
                 IF body.description # <<>> THEN Trim(body.description)
                                            ELSE old.description
            /\ new.date = IF body.date # NoDate THEN body.date ELSE old.date
            /\ new.tags = IF body.tags.present THEN body.tags.list
                                               ELSE old.tags


(***************************************************************************)
(* C17: no request changes the owner of an Expense or of a Budget: a       *)
(* record that is in the store before and after a step has the same userId *)
(* after it, whatever the body of an updateExpense or updateBudget holds.  *)
(***************************************************************************)
C17_OwnerNeverChanges ==
  [][/\ \A old \in expenses, new \in expenses' :
          old._id = new._id => old.userId = new.userId
     /\ \A old \in budgets, new \in budgets' :
          old._id = new._id => old.userId = new.userId]_vars


(***************************************************************************)
(* getBudget: findOne (first await), then budget.getCurrentSpending()      *)
(* (second await).                                                         *)
(***************************************************************************)
getBudgetFind(s, u, id) ==
  /\ inflight[s] = Idle
  /\ LET budget == FindBudgetById(budgets, id, u)
     IN IF budget = {}
          THEN /\ last' = Response("getBudget", u, 404, "Budget not found",
                                   RequestInfo(id))
               /\ UNCHANGED inflight
          ELSE /\ inflight' = [inflight EXCEPT ![s] =
                     [op |-> "getBudget", user |-> u, id |-> id,
                      budget |-> CHOOSE b \in budget : TRUE]]
               /\ UNCHANGED last
  /\ UNCHANGED <<users, expenses, budgets, nextId, now, files>>

getBudgetSpending(s) ==
  /\ inflight[s].op = "getBudget"
  /\ LET r == inflight[s]
         budget == r.budget
         currentSpending ==
           SumAmount(BudgetSpendingMatch(expenses, budget.userId,
                                         budget.category, budget.monthYear))
     IN last' = ResponseData("getBudget", r.user, 200, "", RequestInfo(r.id),
                  [budget |-> budget,
                   currentSpending |-> currentSpending,
                   remaining |-> budget.amountLimit - currentSpending,
                   percentageUsed |->
                     MathRound(10000 * currentSpending, budget.amountLimit),
                   isOverBudget |-> currentSpending > budget.amountLimit])
  /\ inflight' = [inflight EXCEPT ![s] = Idle]
  /\ UNCHANGED <<users, expenses, budgets, nextId, now, files>>

(***************************************************************************)
(* Creating, reading, updating and deleting expenses and budgets by id,    *)
(* from empty collections.                                                 *)
(***************************************************************************)
InitNotFound ==
  /\ users = {}
  /\ expenses = {}
  /\ budgets = {}
  /\ nextId = 1
  /\ inflight = [s \in Slots |-> Idle]
  /\ last = NoResponse
  /\ now \in NowInputs
  /\ files = {}

NotFoundExpenseBodies ==
  [amount : {8500}, category : {"Travel"}, date : {NoDate},
   paymentMethod : {"Cash"}, description : {<<"t", "a", "x", "i">>},
   tags : {NoTags}]

NotFoundBudgetBodies ==
  [category : {"Travel"}, amountLimit : LimitInputs, monthYear : {NoMonth},
   notifications : {NoNotifications}]

\* the ids handed out, and one that never is
NotFoundIds == 1..(MaxIds + 1)

NextNotFound ==
  \/ \E s \in Slots, u \in UserIds, body \in NotFoundExpenseBodies :
       createExpenseInsert(s, u, body)
  \/ \E s \in Slots : createExpenseBudgets(s)
  \/ \E s \in Slots : createExpenseAlerts(s)
  \/ \E s \in Slots, u \in UserIds, body \in NotFoundBudgetBodies :
       createBudgetCheck(s, u, body)
  \/ \E s \in Slots : createBudgetInsert(s)
  \/ \E u \in UserIds, id \in NotFoundIds : getExpense(u, id)
  \/ \E u \in UserIds, id \in NotFoundIds, body \in ExpenseUpdateBodies :
       updateExpense(u, id, body, "absent")
  \/ \E u \in UserIds, id \in NotFoundIds : deleteExpense(u, id)
  \/ \E s \in Slots, u \in UserIds, id \in NotFoundIds : getBudgetFind(s, u, id)
  \/ \E s \in Slots : getBudgetSpending(s)
  \/ \E u \in UserIds, id \in NotFoundIds, body \in NotFoundBudgetBodies :
       updateBudget(u, id, body, "absent", "absent")
  \/ \E u \in UserIds, id \in NotFoundIds : deleteBudget(u, id)

SpecNotFound == InitNotFound /\ [][NextNotFound]_vars

\* the step answers a get, update or delete of an Expense at its lookup
ExpenseRequest ==
  /\ last' # last
  /\ last'.op \in {"getExpense", "updateExpense", "deleteExpense"}

\* the step answers a get, update or delete of a Budget at its lookup
BudgetRequest ==
  /\ last' # last
  /\ inflight' = inflight
  /\ last'.op \in {"getBudget", "updateBudget", "deleteBudget"}

StoreUnchanged ==
  /\ users' = users /\ expenses' = expenses /\ budgets' = budgets
  /\ files' = files

\* a delete that succeeded has removed the record of the id, and no step
\* brings a record back under an id handed out before
DeletedStaysDeleted ==
  /\ (last' # last /\ last'.op = "deleteExpense" /\ last'.status = 200)
       => \A e \in expenses' : e._id # last'.info.id
  /\ (last' # last /\ last'.op = "deleteBudget" /\ last'.status = 200)
       => \A b \in budgets' : b._id # last'.info.id
  /\ \A id \in 1..(nextId - 1) :
       /\ (\A e \in expenses : e._id # id) => (\A e \in expenses' : e._id # id)
       /\ (\A b \in budgets : b._id # id) => (\A b \in budgets' : b._id # id)

CopyEnding ==
  {s \in Slots : inflight[s].op = "copyPrevious" /\ inflight'[s] = Idle}

(***************************************************************************)
(* C19: a copyPreviousMonthBudget request is answered 404, 400 or 201.     *)
(* The 404 comes with no Budget of the owner and category in the month     *)
(* before the current one, the 400 with a Budget of the owner and category *)
(* in the current month, and neither changes the store.  The 201 comes     *)
(* with exactly one new Budget, of the owner, the category and the current *)
(* month, with the amountLimit and the notification settings of the        *)
(* previous month's Budget the request found, and with every other Budget  *)
(* left as it was.                                                         *)
(***************************************************************************)
C19_CopyPreviousMonth ==
  [][(last' # last /\ last'.op = "copyPrevious") =>
       /\ last'.status \in {404, 400, 201}
       /\ last'.status = 404 =>
            /\ StoreUnchanged
            /\ FindBudgetByKey(last'.user, last'.info.category,
                               previousMonthYear) = {}
       /\ last'.status = 400 =>
            /\ StoreUnchanged
            /\ FindBudgetByKey(last'.user, last'.info.category,
                               ISOMonth(now)) # {}
       /\ last'.status = 201 =>
            /\ budgets \subseteq budgets'
            /\ Cardinality(budgets') = Cardinality(budgets) + 1
            /\ expenses' = expenses /\ users' = users
            /\ \A new \in budgets' \ budgets :
                 /\ new.userId = last'.user
                 /\ new.category = last'.info.category
                 /\ new.monthYear = ISOMonth(now)
                 /\ \A s \in CopyEnding :
                      /\ new.amountLimit = inflight[s].previousBudget.amountLimit
                      /\ new.notifications.enabled
                           = inflight[s].previousBudget.notifications.enabled
                      /\ new.notifications.threshold
                           = inflight[s].previousBudget.notifications.threshold
                      /\ inflight[s].previousBudget.monthYear
                           = previousMonthYear]_vars


(***************************************************************************)
(* getBudgetStatus query by query: the find of the active budgets (first   *)
(* await), then one aggregate per budget, issued together by Promise.all   *)
(* and answered by the store in any order; the response follows the last.  *)
(***************************************************************************)
getBudgetStatusFind(s, u, monthYear) ==
  /\ inflight[s] = Idle
  /\ LET targetMonthYear ==
           IF monthYear # NoMonth THEN monthYear ELSE ISOMonth(now)
         found == ActiveBudgetsOfMonth(budgets, u, targetMonthYear)
     IN IF found = {}
          THEN /\ last' = ResponseData("getBudgetStatus", u, 200, "",
                            [valid |-> TRUE, dup |-> FALSE,
                             monthYear |-> targetMonthYear],
                            SortByCategory({}))
               /\ UNCHANGED inflight
          ELSE /\ inflight' = [inflight EXCEPT ![s] =
                     [op |-> "getBudgetStatus", user |-> u,
                      monthYear |-> targetMonthYear, pending |-> found,
                      entries |-> {}]]
               /\ UNCHANGED last
  /\ UNCHANGED <<users, expenses, budgets, nextId, now, files>>

getBudgetStatusAggregate(s, budget) ==
  /\ inflight[s].op = "getBudgetStatus"
  /\ budget \in inflight[s].pending
  /\ LET r == inflight[s]
         entry == BudgetStatusEntry(budget,
                    SumAmount(BudgetSpendingMatch(expenses, r.user,
                                                  budget.category,
                                                  r.monthYear)))
     IN IF r.pending = {budget}
          THEN /\ last' = ResponseData("getBudgetStatus", r.user, 200, "",
                            [valid |-> TRUE, dup |-> FALSE,
                             monthYear |-> r.monthYear],
                            SortByCategory(r.entries \cup {entry}))
               /\ inflight' = [inflight EXCEPT ![s] = Idle]
          ELSE /\ inflight' = [inflight EXCEPT ![s] =
                     [r EXCEPT !.pending = @ \ {budget},
                               !.entries = @ \cup {entry}]]
               /\ UNCHANGED last
  /\ UNCHANGED <<users, expenses, budgets, nextId, now, files>>

(***************************************************************************)
(* The budget status next to concurrent expense writes, from one expense   *)
(* and two budgets of one user.                                            *)
(***************************************************************************)
ConcurrentExpenseInputs ==
  {Expense(1, "u1", 2000, "Travel", JSDate(2024, 5, 15, 12, 0, 0, 0),
           "Cash", <<"t", "a", "x", "i">>, <<>>)}

ConcurrentBudgetInputs ==
  {Budget(1, "u1", "Travel", 10000, June2024, TRUE,
          [enabled |-> TRUE, threshold |-> THRESHOLD_DEFAULT]),
   Budget(2, "u1", "Food & Dining", 10000, June2024, TRUE,
          [enabled |-> TRUE, threshold |-> THRESHOLD_DEFAULT])}

InitConcurrent ==
  /\ users = {}
  /\ expenses = ConcurrentExpenseInputs
  /\ budgets = ConcurrentBudgetInputs
  /\ nextId = 2
  /\ inflight = [s \in Slots |-> Idle]
  /\ last = NoResponse
  /\ now \in NowInputs
  /\ files = {}

ConcurrentUpdateBodies ==
  [amount : {2000}, category : {"Travel", "Food & Dining"}, date : {NoDate},
   paymentMethod : {"Cash"}, description : {<<"t", "a", "x", "i">>},
   tags : {NoTags}]

NextConcurrent ==
  \/ \E s \in Slots, u \in UserIds : getBudgetStatusFind(s, u, NoMonth)
  \/ \E s \in Slots, budget \in budgets : getBudgetStatusAggregate(s, budget)
  \/ \E s \in Slots, u \in UserIds, body \in NotFoundExpenseBodies :
       createExpenseInsert(s, u, body)
  \/ \E s \in Slots : createExpenseBudgets(s)
  \/ \E s \in Slots : createExpenseAlerts(s)
  \/ \E u \in UserIds, id \in 1..MaxIds, body \in ConcurrentUpdateBodies :
       updateExpense(u, id, body, "absent")
  \/ \E u \in UserIds, id \in 1..MaxIds : deleteExpense(u, id)

SpecConcurrent == InitConcurrent /\ [][NextConcurrent]_vars

\* the sum of the user's expenses of a category dated in a month
MatchingSum(ecoll, userId, category, monthYear) ==
  SumAmount({e \in ecoll : /\ e.userId = userId
                           /\ e.category = category
                           /\ ISOMonth(e.date) = monthYear})

(***************************************************************************)
(* C20: a getBudgetStatus request starts with no entry computed; each      *)
(* later step of it adds the entry of one budget it found, and that        *)
(* entry's totalSpent is the matching-expense sum of the store as it is at *)
(* that step, a state between the start of the request and its response;   *)
(* the response carries the entries so computed, whatever expense writes   *)
(* ran in between.                                                         *)
(***************************************************************************)
C20_EntryFromStoreStateInBetween ==
  [][\A s \in Slots :
       /\ (inflight[s] = Idle /\ inflight'[s] # Idle
           /\ inflight'[s].op = "getBudgetStatus")
            => inflight'[s].entries = {}
       /\ (inflight[s].op = "getBudgetStatus" /\ inflight'[s] # inflight[s])
            => LET r == inflight[s]
                   after == IF inflight'[s] = Idle
                              THEN {last'.data[i] : i \in DOMAIN last'.data}
                              ELSE inflight'[s].entries
               IN /\ r.entries \subseteq after
                  /\ Cardinality(after) = Cardinality(r.entries) + 1
                  /\ \A e \in after \ r.entries :
                       /\ e.budget \in r.pending
                       /\ e.totalSpent =
                            MatchingSum(expenses, r.user, e.budget.category,
                                        r.monthYear)]_vars

\* one response counts the only expense there ever was under both budgets:
\* its category was changed between the two aggregates
C20_Witness ==
  /\ last.op = "getBudgetStatus"
  /\ Len(last.data) = 2
  /\ last.data[1].totalSpent = 2000 /\ last.data[2].totalSpent = 2000
  /\ nextId = 2


(***************************************************************************)
(* getExpenseStats: the date range of the period, then three aggregates    *)
(* over it, each awaited: the total, the breakdown by category and the     *)
(* breakdown by payment method.                                            *)
(***************************************************************************)
\* Date.prototype.getDay(): day 0 (2023-01-01) is a Sunday
getDay(date) == date.day % 7

\* new Date(now.setDate(now.getDate() + n)): the time of day is kept
setDate(date, n) == [day |-> date.day + n, ms |-> date.ms]

\* the switch on period; the second setDate of 'week' works on the date the
\* first has already moved to the Sunday
StatsDateRange(period) ==
  IF period = "week"
    THEN LET sunday == setDate(now, 0 - getDay(now))
         IN [startDate |-> sunday,
             endDate |-> setDate(sunday, 0 - getDay(sunday) + 6)]
  ELSE IF period = "year"
    THEN [startDate |-> JSDate(getFullYear(now), 0, 1, 0, 0, 0, 0),
          endDate |-> JSDate(getFullYear(now), 11, 31, 0, 0, 0, 0)]
  ELSE [startDate |-> JSDate(getFullYear(now), getMonth(now), 1, 0, 0, 0, 0),
        endDate |-> JSDate(getFullYear(now), getMonth(now) + 1, 0, 0, 0, 0, 0)]

\* $match: {userId, date: {$gte: startDate, $lte: endDate}}
StatsMatch(ecoll, userId, range) ==
  {e \in ecoll : /\ e.userId = userId
                 /\ DateLE(range.startDate, e.date)
                 /\ DateLE(e.date, range.endDate)}

\* $group by null: total, count and average (the pair total over count);
\* totalSpending[0] || {total: 0, count: 0, average: 0}
StatsTotal(matched) ==
  [total |-> SumAmount(matched), count |-> Cardinality(matched),
   average |-> IF matched = {} THEN <<0, 1>>
               ELSE <<SumAmount(matched), Cardinality(matched)>>]

\* $group by a field: one group per value that occurs
StatsGroups(matched, field) ==
  {[_id |-> v, total |-> SumAmount({e \in matched : e[field] = v}),
    count |-> Cardinality({e \in matched : e[field] = v})] :
     v \in {e[field] : e \in matched}}

getExpenseStatsTotal(s, u, period) ==
  /\ inflight[s] = Idle
  /\ LET range == StatsDateRange(period)
     IN inflight' = [inflight EXCEPT ![s] =
          [op |-> "getExpenseStatsCategory", user |-> u, period |-> period,
           range |-> range,
           totalSpending |-> StatsTotal(StatsMatch(expenses, u, range))]]
  /\ UNCHANGED <<users, expenses, budgets, nextId, last, now, files>>

getExpenseStatsCategory(s) ==
  /\ inflight[s].op = "getExpenseStatsCategory"
  /\ LET r == inflight[s]
     IN inflight' = [inflight EXCEPT ![s] =
          [r EXCEPT !.op = "getExpenseStatsPaymentMethod"] @@
          [spendingByCategory |->
             StatsGroups(StatsMatch(expenses, r.user, r.range), "category")]]
  /\ UNCHANGED <<users, expenses, budgets, nextId, last, now, files>>

\* the groups are sent in $sort: {total: -1} order; the sets below hold them
getExpenseStatsPaymentMethod(s) ==
  /\ inflight[s].op = "getExpenseStatsPaymentMethod"
  /\ LET r == inflight[s]
     IN last' = ResponseData("getExpenseStats", r.user, 200, "", NoInfo,
                  [period |-> r.period, dateRange |-> r.range,
                   totalSpending |-> r.totalSpending,
                   spendingByCategory |-> r.spendingByCategory,
                   spendingByPaymentMethod |->
                     StatsGroups(StatsMatch(expenses, r.user, r.range),
                                 "paymentMethod")])
  /\ inflight' = [inflight EXCEPT ![s] = Idle]
  /\ UNCHANGED <<users, expenses, budgets, nextId, now, files>>

StatsExpenseInputs ==
  WithIds(
    <<Expense(0, "u1", 2000, "Travel", JSDate(2024, 5, 1, 0, 0, 0, 0),
              "Cash", <<"t", "a", "x", "i">>, <<>>),
      Expense(0, "u1", 500, "Food & Dining", JSDate(2024, 5, 10, 9, 0, 0, 0),
              "Check", <<"t", "e", "a">>, <<>>),
      Expense(0, "u1", 3000, "Travel", JSDate(2024, 5, 30, 12, 0, 0, 0),
              "Cash", <<"t", "a", "x", "i">>, <<>>),
      Expense(0, "u1", 4000, "Travel", JSDate(2024, 4, 31, 23, 0, 0, 0),
              "Cash", <<"t", "a", "x", "i">>, <<>>),
      Expense(0, "u1", 700, "Travel", JSDate(2024, 6, 1, 0, 0, 0, 0),
              "Cash", <<"t", "a", "x", "i">>, <<>>),
      Expense(0, "u2", 5000, "Travel", JSDate(2024, 5, 10, 9, 0, 0, 0),
              "Cash", <<"t", "a", "x", "i">>, <<>>)>>)

InitStats ==
  /\ users = {}
  /\ expenses \in {S \in SUBSET StatsExpenseInputs :
                     Cardinality(S) <= MaxStatusExpenses}
  /\ budgets = {}
  /\ nextId = 1
  /\ inflight = [s \in Slots |-> Idle]
  /\ last = NoResponse
  /\ now \in NowInputs
  /\ files = {}

StatsPeriodInputs == {"week", "month", "year"}

NextStats ==
  \/ \E s \in Slots, u \in UserIds, period \in StatsPeriodInputs :
       getExpenseStatsTotal(s, u, period)
  \/ \E s \in Slots : getExpenseStatsCategory(s)
  \/ \E s \in Slots : getExpenseStatsPaymentMethod(s)

SpecStats == InitStats /\ [][NextStats]_vars

(***************************************************************************)
(* C21: the statistics of period 'month' are computed over the owner's     *)
(* expenses dated in the current calendar month, the whole last day        *)
(* included, and over no other expense: the total and the count are those  *)
(* of that set, and the breakdowns by category and by payment method are   *)
(* its groups.                                                             *)
(***************************************************************************)
C21_StatsOfCalendarMonth ==
  (last.op = "getExpenseStats" /\ last.data.period = "month") =>
    LET dated == {e \in expenses : /\ e.userId = last.user
                                   /\ ISOMonth(e.date) = ISOMonth(now)}
    IN /\ last.data.totalSpending.total = SumAmount(dated)
       /\ last.data.totalSpending.count = Cardinality(dated)
       /\ last.data.spendingByCategory = StatsGroups(dated, "category")
       /\ last.data.spendingByPaymentMethod
            = StatsGroups(dated, "paymentMethod")


(***************************************************************************)
(* getDashboardSummary: the ranges, then five awaits: the aggregates of    *)
(* the current month, the previous month and this week, the budget status  *)
(* and the top categories of the current month.                            *)
(***************************************************************************)
\* previousMonthStart and previousMonthEnd
PreviousMonthRange ==
  [startDate |-> JSDate(getFullYear(now), getMonth(now) - 1, 1, 0, 0, 0, 0),
   endDate |-> JSDate(getFullYear(now), getMonth(now), 0, 0, 0, 0, 0)]

\* previousMonthTotal > 0 ? Math.round(((current - previous) / previous)
\* * 10000) / 100 : 0, in hundredths of a percent
monthOverMonthChange(currentMonthTotal, previousMonthTotal) ==
  IF previousMonthTotal > 0
    THEN MathRound(10000 * (currentMonthTotal - previousMonthTotal),
                   previousMonthTotal)
    ELSE 0

RECURSIVE SortByTotal(_)
\* $sort: {total: -1}; groups of one total in category order
SortByTotal(S) ==
  IF S = {} THEN <<>>
  ELSE LET first == CHOOSE x \in S : \A y \in S :
                      \/ x.total > y.total
                      \/ /\ x.total = y.total
                         /\ localeCompareRank(x._id) <= localeCompareRank(y._id)
       IN <<first>> \o SortByTotal(S \ {first})

dashboardCurrentMonth(s, u) ==
  /\ inflight[s] = Idle
  /\ inflight' = [inflight EXCEPT ![s] =
       [op |-> "dashboardPreviousMonth", user |-> u,
        currentMonthSpending |->
          StatsMatch(expenses, u, StatsDateRange("month"))]]
  /\ UNCHANGED <<users, expenses, budgets, nextId, last, now, files>>

dashboardPreviousMonth(s) ==
  /\ inflight[s].op = "dashboardPreviousMonth"
  /\ inflight' = [inflight EXCEPT ![s] =
       [inflight[s] EXCEPT !.op = "dashboardThisWeek"] @@
       [previousMonthSpending |->
          StatsMatch(expenses, inflight[s].user, PreviousMonthRange)]]
  /\ UNCHANGED <<users, expenses, budgets, nextId, last, now, files>>

dashboardThisWeek(s) ==
  /\ inflight[s].op = "dashboardThisWeek"
  /\ inflight' = [inflight EXCEPT ![s] =
       [inflight[s] EXCEPT !.op = "dashboardBudgetStatus"] @@
       [thisWeekSpending |->
          StatsMatch(expenses, inflight[s].user, StatsDateRange("week"))]]
  /\ UNCHANGED <<users, expenses, budgets, nextId, last, now, files>>

\* Budget.getBudgetStatus(userId, currentMonthYear)
dashboardBudgetStatus(s) ==
  /\ inflight[s].op = "dashboardBudgetStatus"
  /\ inflight' = [inflight EXCEPT ![s] =
       [inflight[s] EXCEPT !.op = "dashboardTopCategories"] @@
       [budgetStatus |->
          BudgetStatusOf(budgets, expenses, inflight[s].user, ISOMonth(now))]]
  /\ UNCHANGED <<users, expenses, budgets, nextId, last, now, files>>

dashboardTopCategories(s) ==
  /\ inflight[s].op = "dashboardTopCategories"
  /\ LET r == inflight[s]
         topCategories ==
           SkipLimit(SortByTotal(StatsGroups(
             StatsMatch(expenses, r.user, StatsDateRange("month")),
             "category")), 0, 5)
         currentMonthTotal == SumAmount(r.currentMonthSpending)
         previousMonthTotal == SumAmount(r.previousMonthSpending)
     IN last' = ResponseData("getDashboardSummary", r.user, 200, "", NoInfo,
          [currentMonth |->
             [total |-> MathRound(currentMonthTotal * 100, 100),
              count |-> Cardinality(r.currentMonthSpending),
              change |-> monthOverMonthChange(currentMonthTotal,
                                              previousMonthTotal)],
           thisWeek |->
             [total |-> MathRound(SumAmount(r.thisWeekSpending) * 100, 100),
              count |-> Cardinality(r.thisWeekSpending)],
           budgetStatus |-> SkipLimit(r.budgetStatus, 0, 5),
           topCategories |->
             [i \in DOMAIN topCategories |->
                [_id |-> topCategories[i]._id,
                 total |-> MathRound(topCategories[i].total * 100, 100)]],
           alerts |-> Len(SelectSeq(r.budgetStatus,
                          LAMBDA e : e.isOverBudget \/ e.shouldAlert))])
  /\ inflight' = [inflight EXCEPT ![s] = Idle]
  /\ UNCHANGED <<users, expenses, budgets, nextId, now, files>>

DashboardExpenseInputs ==
  WithIds(
    <<Expense(0, "u1", 400, "Travel", JSDate(2024, 5, 10, 9, 0, 0, 0),
              "Cash", <<"t", "a", "x", "i">>, <<>>),
      Expense(0, "u1", 500, "Food & Dining", JSDate(2024, 5, 12, 9, 0, 0, 0),
              "Check", <<"t", "e", "a">>, <<>>),
      Expense(0, "u1", 300, "Travel", JSDate(2024, 4, 10, 12, 0, 0, 0),
              "Cash", <<"t", "a", "x", "i">>, <<>>),
      Expense(0, "u1", 4000, "Travel", JSDate(2024, 4, 31, 23, 0, 0, 0),
              "Cash", <<"t", "a", "x", "i">>, <<>>),
      Expense(0, "u2", 5000, "Travel", JSDate(2024, 4, 10, 9, 0, 0, 0),
              "Cash", <<"t", "a", "x", "i">>, <<>>)>>)

InitDashboard ==
  /\ users = {}
  /\ expenses \in SUBSET DashboardExpenseInputs
  /\ budgets \in {{}, AlertBudgetInputs}
  /\ nextId = 1
  /\ inflight = [s \in Slots |-> Idle]
  /\ last = NoResponse
  /\ now \in NowInputs
  /\ files = {}

NextDashboard ==
  \/ \E s \in Slots, u \in UserIds : dashboardCurrentMonth(s, u)
  \/ \E s \in Slots : dashboardPreviousMonth(s)
  \/ \E s \in Slots : dashboardThisWeek(s)
  \/ \E s \in Slots : dashboardBudgetStatus(s)
  \/ \E s \in Slots : dashboardTopCategories(s)

SpecDashboard == InitDashboard /\ [][NextDashboard]_vars

\* the total of the user's expenses dated in a calendar month
TotalOfMonth(ecoll, userId, monthYear) ==
  SumAmount({e \in ecoll : e.userId = userId /\ ISOMonth(e.date) = monthYear})

(***************************************************************************)
(* C22: the dashboard's currentMonth.change is 0 when the total of the     *)
(* previous calendar month is 0, and otherwise                             *)
(* 100 * (currentMonthTotal - previousMonthTotal) / previousMonthTotal,    *)
(* the totals being those of the owner's expenses of the two calendar      *)
(* months.  change is in hundredths of a percent.                          *)
(***************************************************************************)
C22_MonthOverMonthChange ==
  last.op = "getDashboardSummary" =>
    LET currentMonthTotal == TotalOfMonth(expenses, last.user, ISOMonth(now))
        previousMonthTotal ==
          TotalOfMonth(expenses, last.user, previousMonthYear)
    IN IF previousMonthTotal = 0
         THEN last.data.currentMonth.change = 0
         ELSE last.data.currentMonth.change * previousMonthTotal
                = 100 * 100 * (currentMonthTotal - previousMonthTotal)


(***************************************************************************)
(* getBudgetRecommendations: one aggregate over the last N months, grouped *)
(* by category, and a recommendation per group.                            *)
(***************************************************************************)
HIGH_CONFIDENCE_MIN == 5

\* startDate and endDate of the window
RecommendationRange(months) ==
  [startDate |->
     JSDate(getFullYear(now), getMonth(now) - months, 1, 0, 0, 0, 0),
   endDate |-> JSDate(getFullYear(now), getMonth(now), 0, 0, 0, 0, 0)]

RECURSIVE SortByAverage(_)
\* $sort: {averageSpending: -1}, the average being total / count; groups of
\* one average in category order
SortByAverage(S) ==
  IF S = {} THEN <<>>
  ELSE LET first == CHOOSE x \in S : \A y \in S :
                      \/ x.total * y.count > y.total * x.count
                      \/ /\ x.total * y.count = y.total * x.count
                         /\ localeCompareRank(x._id) <= localeCompareRank(y._id)
       IN <<first>> \o SortByAverage(S \ {first})

\* the recommendation of a group; averageSpending is total / count
Recommendation(item) ==
  [category |-> item._id,
   averageSpending |-> MathRound(item.total, item.count),
   totalSpending |-> MathRound(item.total * 100, 100),
   transactionCount |-> item.count,
   recommendedBudget |-> MathRound(12 * item.total, 10 * item.count),
   confidence |-> IF item.count >= HIGH_CONFIDENCE_MIN THEN "high"
                                                       ELSE "medium"]

getBudgetRecommendations(u, months) ==
  /\ LET averageSpending ==
           SortByAverage(StatsGroups(
             StatsMatch(expenses, u, RecommendationRange(months)),
             "category"))
     IN last' = ResponseData("getBudgetRecommendations", u, 200, "",
                  NoInfo @@ [months |-> months],
                  [i \in DOMAIN averageSpending |->
                     Recommendation(averageSpending[i])])
  /\ UNCHANGED <<users, expenses, budgets, nextId, inflight, now, files>>

RecommendationExpenseInputs ==
  WithIds(
    <<Expense(0, "u1", 1000, "Travel", JSDate(2024, 2, 1, 0, 0, 0, 0),
              "Cash", <<"t", "a", "x", "i">>, <<>>),
      Expense(0, "u1", 1000, "Travel", JSDate(2024, 3, 10, 9, 0, 0, 0),
              "Cash", <<"t", "a", "x", "i">>, <<>>),
      Expense(0, "u1", 1000, "Travel", JSDate(2024, 3, 20, 9, 0, 0, 0),
              "Cash", <<"t", "a", "x", "i">>, <<>>),
      Expense(0, "u1", 1000, "Travel", JSDate(2024, 4, 10, 9, 0, 0, 0),
              "Cash", <<"t", "a", "x", "i">>, <<>>),
      Expense(0, "u1", 1000, "Travel", JSDate(2024, 4, 20, 9, 0, 0, 0),
              "Cash", <<"t", "a", "x", "i">>, <<>>),
      Expense(0, "u1", 500, "Food & Dining", JSDate(2024, 4, 31, 12, 0, 0, 0),
              "Cash", <<"t", "e", "a">>, <<>>),
      Expense(0, "u1", 1000, "Travel", JSDate(2024, 5, 10, 9, 0, 0, 0),
              "Cash", <<"t", "a", "x", "i">>, <<>>),
      Expense(0, "u2", 1500, "Shopping", JSDate(2024, 4, 10, 9, 0, 0, 0),
              "Cash", <<"h", "a", "t">>, <<>>)>>)

InitRecommendations ==
  /\ users = {}
  /\ expenses \in SUBSET RecommendationExpenseInputs
  /\ budgets = {}
  /\ nextId = 1
  /\ inflight = [s \in Slots |-> Idle]
  /\ last = NoResponse
  /\ now \in NowInputs
  /\ files = {}

RecommendationMonthInputs == {1, 3}

NextRecommendations ==
  \E u \in UserIds, months \in RecommendationMonthInputs :
    getBudgetRecommendations(u, months)

SpecRecommendations == InitRecommendations /\ [][NextRecommendations]_vars

\* months since year 0 of the calendar month of a date
MonthNumber(date) == 12 * getFullYear(date) + getMonth(date)

\* the user's expenses of a category dated in the N calendar months before
\* the current one
TrailingExpenses(ecoll, userId, category, months) ==
  {e \in ecoll : /\ e.userId = userId
                 /\ e.category = category
                 /\ MonthNumber(e.date) >= MonthNumber(now) - months
                 /\ MonthNumber(e.date) <= MonthNumber(now) - 1}

(***************************************************************************)
(* C23: the recommendations are one per category in which the owner has    *)
(* expenses dated in the N calendar months before the current one; each    *)
(* has recommendedBudget = 1.2 * (total / count) of those expenses and     *)
(* confidence 'high' exactly when they are at least 5, otherwise 'medium'. *)
(***************************************************************************)
C23_Recommendations ==
  last.op = "getBudgetRecommendations" =>
    LET months == last.info.months
        window(category) ==
          TrailingExpenses(expenses, last.user, category, months)
        recommendations == {last.data[i] : i \in DOMAIN last.data}
    IN /\ {r.category : r \in recommendations}
            = {c \in expenseCategories : window(c) # {}}
       /\ Len(last.data) = Cardinality(recommendations)
       /\ \A r \in recommendations :
            /\ 10 * Cardinality(window(r.category)) * r.recommendedBudget
                 = 12 * SumAmount(window(r.category))
            /\ r.confidence =
                 IF Cardinality(window(r.category)) >= 5 THEN "high"
                                                         ELSE "medium"


(***************************************************************************)
(* utils/jwt: the token pair of a user and the verification of a token.    *)
(* A token is its payload and its signature; a signature is the key that   *)
(* made it and the payload it was made for.  inflight[s] holds the pair    *)
(* client s was sent.                                                      *)
(***************************************************************************)
SECONDS_PER_DAY == 86400
ACCESS_EXPIRES_DAYS == 7
REFRESH_EXPIRES_DAYS == 30
MaxTokenDays == 30

JWT_SECRET == "JWT_SECRET"

\* Math.floor(Date.now() / 1000), counted from the first day of the calendar
ClockTimestamp(date) == date.day * SECONDS_PER_DAY + (date.ms \div 1000)

\* jwt.sign(payload, secretOrPrivateKey, {expiresIn, issuer, audience})
jwtSign(payload, secretOrPrivateKey, expiresInDays, clockTimestamp) ==
  LET claims == payload @@
        [iat |-> clockTimestamp,
         exp |-> clockTimestamp + expiresInDays * SECONDS_PER_DAY,
         iss |-> "expense-tracker-api",
         aud |-> "expense-tracker-client"]
  IN [payload |-> claims,
      signature |-> [key |-> secretOrPrivateKey, payload |-> claims]]

generateAccessToken(user, clockTimestamp) ==
  jwtSign([userId |-> user._id, username |-> user.username,
           email |-> user.email],
          JWT_SECRET, ACCESS_EXPIRES_DAYS, clockTimestamp)

generateRefreshToken(user, clockTimestamp) ==
  jwtSign([userId |-> user._id, type |-> "refresh"],
          JWT_SECRET, REFRESH_EXPIRES_DAYS, clockTimestamp)

\* a verification that refuses a payload with a type
jwtVerifyAccessOnly(token, secretOrPublicKey, clockTimestamp) ==
  IF token.signature # [key |-> secretOrPublicKey, payload |-> token.payload]
       \/ "type" \in DOMAIN token.payload
    THEN [name |-> "JsonWebTokenError"]
    ELSE IF clockTimestamp >= token.payload.exp
           THEN [name |-> "TokenExpiredError"]
           ELSE token.payload

\* jwt.verify(token, secretOrPublicKey): the payload, or the error thrown
jwtVerify(token, secretOrPublicKey, clockTimestamp) ==
  IF token.signature # [key |-> secretOrPublicKey, payload |-> token.payload]
    THEN [name |-> "JsonWebTokenError"]
    ELSE IF clockTimestamp >= token.payload.exp
           THEN [name |-> "TokenExpiredError"]
           ELSE token.payload

\* generateTokenPair(user), the pair sent to client s
generateTokenPair(s, user) ==
  /\ inflight' = [inflight EXCEPT ![s] =
       [op |-> "tokens", user |-> user._id,
        accessToken |-> generateAccessToken(user, ClockTimestamp(now)),
        refreshToken |-> generateRefreshToken(user, ClockTimestamp(now)),
        tokenType |-> "Bearer"]]
  /\ UNCHANGED <<users, expenses, budgets, nextId, last, now, files>>

\* what a client can present from a token it was sent: the token, the token
\* signed with another key, and the token with its payload edited
Presentable(token) ==
  {token,
   [token EXCEPT !.signature.key = "guess"],
   [token EXCEPT !.payload.exp = @ + REFRESH_EXPIRES_DAYS * SECONDS_PER_DAY],
   [token EXCEPT !.payload =
      [f \in (DOMAIN token.payload) \ {"type"} |-> token.payload[f]]]}

PresentableBy(s) ==
  IF inflight[s].op = "tokens"
    THEN Presentable(inflight[s].accessToken)
           \cup Presentable(inflight[s].refreshToken)
    ELSE {}

\* verifyToken(token); status 200 stands for the payload returned, status 0
\* for an error thrown
verifyToken(s, token) ==
  /\ token \in PresentableBy(s)
  /\ LET decoded == jwtVerify(token, JWT_SECRET, ClockTimestamp(now))
         thrown == "name" \in DOMAIN decoded
     IN last' = ResponseData("verifyToken", inflight[s].user,
                  IF thrown THEN 0 ELSE 200,
                  IF thrown THEN decoded.name ELSE "",
                  NoInfo @@ [token |-> token,
                             clockTimestamp |-> ClockTimestamp(now)],
                  decoded)
  /\ UNCHANGED <<users, expenses, budgets, nextId, inflight, now, files>>

TokenClockStart == JSDate(2024, 5, 15, 12, 0, 0, 0)

\* time passes, by a week or by 23 days
TokenClockTick(days) ==
  /\ now.day + days <= TokenClockStart.day + MaxTokenDays
  /\ now' = [now EXCEPT !.day = @ + days]
  /\ UNCHANGED <<users, expenses, budgets, nextId, inflight, last, files>>

TokenUserInputs ==
  {User(1, <<"a", "n", "n">>, "a@x.org", <<>>),
   User(2, <<"b", "o", "b">>, "b@x.org", <<>>)}

InitToken ==
  /\ users = TokenUserInputs
  /\ expenses = {}
  /\ budgets = {}
  /\ nextId = 3
  /\ inflight = [s \in Slots |-> Idle]
  /\ last = NoResponse
  /\ now = TokenClockStart
  /\ files = {}

NextToken ==
  \/ \E s \in Slots, user \in users : generateTokenPair(s, user)
  \/ \E s \in Slots : \E token \in PresentableBy(s) : verifyToken(s, token)
  \/ \E days \in {ACCESS_EXPIRES_DAYS,
                  REFRESH_EXPIRES_DAYS - ACCESS_EXPIRES_DAYS} :
       TokenClockTick(days)

SpecToken == InitToken /\ [][NextToken]_vars

(***************************************************************************)
(* C24: of a generated pair the refresh token's payload has type           *)
(* 'refresh' and the access token's payload has no type; verifyToken       *)
(* returns the payload of a token exactly when the token's signature is    *)
(* the secret's signature of its payload and the clock is before the       *)
(* payload's exp, whatever the type, and throws otherwise.                 *)
(***************************************************************************)
C24_VerifyIgnoresType ==
  /\ \A s \in Slots :
       inflight[s].op = "tokens" =>
         /\ "type" \in DOMAIN inflight[s].refreshToken.payload
         /\ inflight[s].refreshToken.payload.type = "refresh"
         /\ "type" \notin DOMAIN inflight[s].accessToken.payload
  /\ last.op = "verifyToken" =>
       LET token == last.info.token
           accepted ==
             /\ token.signature
                  = [key |-> JWT_SECRET, payload |-> token.payload]
             /\ last.info.clockTimestamp < token.payload.exp
       IN IF accepted THEN last.status = 200 /\ last.data = token.payload
                      ELSE last.status = 0

\* a refresh token as issued is verified and its payload returned
C24_Witness ==
  /\ last.op = "verifyToken"
  /\ last.status = 200
  /\ "type" \in DOMAIN last.data
  /\ last.data.type = "refresh"
  /\ \E s \in Slots : /\ inflight[s].op = "tokens"
                      /\ last.info.token = inflight[s].refreshToken


(***************************************************************************)
(* The life of an export's transient file.  The clock may move on by a     *)
(* millisecond between the steps of the requests.  The callback of         *)
(* res.download is called when the transfer ends or fails, and the unlink  *)
(* it starts is carried out by the event loop: both steps are weakly fair. *)
(***************************************************************************)
MaxExportTicks == 1

ExportClockTick ==
  /\ now.ms < (CHOOSE t \in NowInputs : TRUE).ms + MaxExportTicks
  /\ now' = [now EXCEPT !.ms = @ + 1]
  /\ UNCHANGED <<users, expenses, budgets, nextId, inflight, last, files>>

InitCleanup ==
  /\ users = {}
  /\ expenses \in {{}, OwnerExpenseInputs}
  /\ budgets \in {{}, OwnerBudgetInputs}
  /\ nextId = 1
  /\ inflight = [s \in Slots |-> Idle]
  /\ last = NoResponse
  /\ now \in NowInputs
  /\ files = {}

NextCleanup ==
  \/ \E s \in Slots, u \in UserIds, query \in ExportQueries :
       exportExpensesToCSVFind(s, u, query)
  \/ \E s \in Slots, u \in UserIds, monthYear \in ExportMonthInputs :
       exportBudgetsToCSVFind(s, u, monthYear)
  \/ \E s \in Slots : exportCSVWrite(s)
  \/ \E s \in Slots : exportCSVDownload(s)
  \/ \E s \in Slots : exportCSVUnlink(s)
  \/ ExportClockTick

SpecCleanup ==
  /\ InitCleanup
  /\ [][NextCleanup]_vars
  /\ \A s \in Slots : WF_vars(exportCSVDownload(s))
  /\ \A s \in Slots : WF_vars(exportCSVUnlink(s))

FileAt(fs, filepath) == \E f \in fs : f.path = filepath

ExportPaths ==
  {ExportPath(prefix, [t EXCEPT !.ms = @ + k]) :
     prefix \in {"expenses", "budgets"}, t \in NowInputs,
     k \in 0..(MaxExportTicks + 1)}

\* the steps of a request's file: the download starts from the written
\* file, the unlink follows the download's callback, and the unlink removes
\* the file and reports nothing
CleanupOrder ==
  \A s \in Slots :
    /\ (inflight'[s].op = "exportDownload" /\ inflight[s].op # "exportDownload")
         => /\ inflight[s].op = "exportWrite"
            /\ [path |-> inflight'[s].filepath, rows |-> inflight[s].rows]
                 \in files'
    /\ (inflight'[s].op = "exportUnlink" /\ inflight[s].op # "exportUnlink")
         => /\ inflight[s].op = "exportDownload"
            /\ last'.op = inflight[s].handler
            /\ last'.status \in {0, 200}
            /\ files' = files
    /\ (inflight[s].op = "exportUnlink" /\ inflight'[s] # inflight[s])
         => /\ inflight'[s] = Idle
            /\ ~FileAt(files', inflight[s].filepath)
            /\ last' = last

MaxThreshold == 150

\* updateBudget with a body that carries
\* {"$inc": {"notifications.threshold": incThreshold}}
updateBudgetInc(u, id, body, incThreshold) ==
  /\ \A b \in FindBudgetById(budgets, id, u) :
       b.notifications.threshold + incThreshold <= MaxThreshold
  /\ LET r == updateBudgetUpdate(budgets, u, id, body, "absent", "absent",
                                 incThreshold)
     IN /\ budgets' = r.budgets
        /\ last' = Response("updateBudget", u, r.status, r.message,
                            r.info @@ [id |-> id, inc |-> incThreshold])
  /\ UNCHANGED <<users, expenses, nextId, inflight, now, files>>

LimitBodies ==
  [category : {"Travel"},
   amountLimit : {0, AMOUNT_MAX, AMOUNT_MAX + 1},
   monthYear : {NoMonth, [y |-> 2024, m |-> 5]},
   notifications :
     {NoNotifications}
       \cup [present : {TRUE}, enabled : {TRUE},
             threshold : {THRESHOLD_MIN - 1, THRESHOLD_MAX}]]

IncThresholdInputs == {0, 50}

InitLimits ==
  /\ users = {}
  /\ expenses = {}
  /\ budgets = {}
  /\ nextId = 1
  /\ inflight = [s \in Slots |-> Idle]
  /\ last = NoResponse
  /\ now \in NowInputs
  /\ files = {}

NextLimits ==
  \/ \E s \in Slots, body \in LimitBodies : createBudgetCheck(s, "u1", body)
  \/ \E s \in Slots : createBudgetInsert(s)
  \/ \E id \in 1..MaxIds, body \in LimitBodies,
          incThreshold \in IncThresholdInputs :
       updateBudgetInc("u1", id, body, incThreshold)
  \/ \E s \in Slots : copyPreviousFind(s, "u1", "Travel")
  \/ \E s \in Slots : copyPreviousCheck(s)
  \/ \E s \in Slots : copyPreviousInsert(s)

SpecLimits == InitLimits /\ [][NextLimits]_vars

(***************************************************************************)
(* C26: every stored budget has its amountLimit within 0.01..999999.99 and *)
(* its notifications.threshold within 0.1..1.0.                            *)
(***************************************************************************)
C26_StoredBudgetsWithinLimits ==
  \A b \in budgets :
    /\ b.amountLimit >= AMOUNT_MIN
    /\ b.amountLimit <= AMOUNT_MAX
    /\ b.notifications.threshold >= THRESHOLD_MIN
    /\ b.notifications.threshold <= THRESHOLD_MAX


(***************************************************************************)
(* changePassword and login of one registered user, two requests at a      *)
(* time, with string passwords.                                            *)
(***************************************************************************)
Winter9 == Plaintext("string", <<"W", "i", "n", "t", "e", "r", "9">>)

PasswordInputs == {Passw0, Secre7, Winter9}

InitPassword ==
  /\ users = {User(1, Ali, "a@x.org", bcryptHash(Passw0))}
  /\ expenses = {}
  /\ budgets = {}
  /\ nextId = 2
  /\ inflight = [s \in Slots |-> Idle]
  /\ last = NoResponse
  /\ now \in NowInputs
  /\ files = {}

NextPassword ==
  \/ \E s \in Slots, currentPassword \in PasswordInputs :
       \E newPassword \in PasswordInputs \ {currentPassword} :
         changePasswordFind(s, 1, [currentPassword |-> currentPassword,
                                   newPassword |-> newPassword])
  \/ \E s \in Slots : changePasswordSave(s)
  \/ \E s \in Slots, password \in PasswordInputs :
       loginFind(s, [email |-> "a@x.org", password |-> password])
  \/ \E s \in Slots : loginCompare(s)

SpecPassword == InitPassword /\ [][NextPassword]_vars

\* the step in which the changePassword of slot s ends
ChangePasswordEnds(s) ==
  inflight[s].op = "changePassword" /\ inflight'[s] = Idle

(***************************************************************************)
(* C27: a changePassword replaces the stored password only when the        *)
(* current password it supplies is the password stored; after its success  *)
(* the stored password accepts the new password and no longer the old      *)
(* one; after its 400 for a wrong current password the stored password is  *)
(* unchanged.                                                              *)
(***************************************************************************)
C27_ChangePassword ==
  [][\A s \in Slots :
       ChangePasswordEnds(s) =>
         LET r == inflight[s]
             before == FirstUser(FindUserById(r.user._id))
             after == CHOOSE u \in users' : u._id = r.user._id
         IN /\ users' # users =>
                 /\ last'.status = 200
                 /\ comparePassword(before, r.currentPassword) = "true"
            /\ last'.status = 200 =>
                 /\ comparePassword(after, r.newPassword) = "true"
                 /\ comparePassword(after, r.currentPassword) = "false"
            /\ last'.status = 400 => users' = users]_vars


\* the requests that hold a file path: written, not yet unlinked
HoldsPath(s) == inflight[s].op \in {"exportDownload", "exportUnlink"}

(***************************************************************************)
(* C28: two CSV exports under way never hold the same file path; a         *)
(* download sends the records of its own request; an unlink never removes  *)
(* the file of a request whose download is still to come.                  *)
(***************************************************************************)
C28_DistinctTransientFiles ==
  [][\A s \in Slots :
       /\ \A t \in Slots \ {s} :
            HoldsPath(s) /\ HoldsPath(t)
              => inflight[s].filepath # inflight[t].filepath
       /\ (inflight[s].op = "exportDownload"
             /\ inflight'[s].op = "exportUnlink")
            => /\ last'.status = 200
               /\ last'.data.records = inflight[s].rows
       /\ (inflight[s].op = "exportUnlink" /\ inflight'[s] = Idle)
            => \A t \in Slots \ {s} :
                 inflight[t].op = "exportDownload"
                   => inflight[t].filepath # inflight[s].filepath]_vars


(***************************************************************************)
(* The months of the stored budgets and the windows their spending is      *)
(* summed over, under creates, updates and deletes with monthYear values   *)
(* of the form YYYY-MM.                                                    *)
(***************************************************************************)
MonthBodies ==
  [category : {"Travel"}, amountLimit : {10000},
   monthYear : {[y |-> 2024, m |-> 12], [y |-> 2024, m |-> 13],
                [y |-> 2025, m |-> 0], [y |-> 2025, m |-> 1]},
   notifications : {NoNotifications}]

MonthExpenseInputs ==
  WithIds(
    <<Expense(0, "u1", 2000, "Travel", JSDate(2024, 11, 15, 12, 0, 0, 0),
              "Cash", <<"t", "a", "x", "i">>, <<>>),
      Expense(0, "u1", 3000, "Travel", JSDate(2025, 0, 15, 12, 0, 0, 0),
              "Cash", <<"t", "a", "x", "i">>, <<>>)>>)

InitMonths ==
  /\ users = {}
  /\ expenses \in SUBSET MonthExpenseInputs
  /\ budgets = {}
  /\ nextId = 1
  /\ inflight = [s \in Slots |-> Idle]
  /\ last = NoResponse
  /\ now \in NowInputs
  /\ files = {}

NextMonths ==
  \/ \E s \in Slots, body \in MonthBodies : createBudgetCheck(s, "u1", body)
  \/ \E s \in Slots : createBudgetInsert(s)
  \/ \E id \in 1..MaxIds, body \in MonthBodies :
       updateBudget("u1", id, body, "absent", "absent")
  \/ \E id \in 1..MaxIds : deleteBudget("u1", id)
  \/ \E body \in MonthBodies : getBudgetStatus("u1", body.monthYear)

SpecMonths == InitMonths /\ [][NextMonths]_vars

\* the budgets whose spending aggregate matches the expense
BudgetsCounting(e) ==
  {b \in budgets :
     e \in BudgetSpendingMatch({e}, b.userId, b.category, b.monthYear)}

(***************************************************************************)
(* C29: the monthYear of every stored budget has a month of 01..12; the    *)
(* windows of two budgets of one owner and category with different         *)
(* monthYear have no instant in common, and every expense is matched by    *)
(* the spending aggregate of at most one budget.                           *)
(***************************************************************************)
C29_RealMonthsDisjointWindows ==
  /\ \A b \in budgets : b.monthYear.m \in 1..12
  /\ \A a, b \in budgets :
       (a.userId = b.userId /\ a.category = b.category
          /\ a.monthYear # b.monthYear)
         => LET startOf(x) ==
                  JSDate(x.monthYear.y, x.monthYear.m - 1, 1, 0, 0, 0, 0)
            IN \/ ~DateLE(startOf(b), EndOfMonth(a.monthYear))
               \/ ~DateLE(startOf(a), EndOfMonth(b.monthYear))
  /\ \A e \in expenses : Cardinality(BudgetsCounting(e)) <= 1

\* an expense of January 2025 is counted under the budgets of 2024-13 and
\* of 2025-01
C29_CountedTwice ==
  \E e \in expenses : Cardinality(BudgetsCounting(e)) = 2


(***************************************************************************)
(* The status and the alerts of a budget whose threshold is updated, with  *)
(* and without a $inc of the threshold in the body.                        *)
(***************************************************************************)
OverBudgetBodies ==
  [category : {"Travel"}, amountLimit : {10000, 20000}, monthYear : {NoMonth},
   notifications :
     {NoNotifications,
      [present |-> TRUE, enabled |-> TRUE, threshold |-> THRESHOLD_MAX]}]

OverBudgetExpenseInputs ==
  WithIds(
    <<Expense(0, "u1", 9000, "Travel", JSDate(2024, 5, 10, 9, 0, 0, 0),
              "Cash", <<"t", "a", "x", "i">>, <<>>),
      Expense(0, "u1", 2000, "Travel", JSDate(2024, 5, 12, 9, 0, 0, 0),
              "Cash", <<"t", "a", "x", "i">>, <<>>),
      Expense(0, "u1", 12000, "Travel", JSDate(2024, 5, 14, 9, 0, 0, 0),
              "Cash", <<"t", "a", "x", "i">>, <<>>)>>)

InitOverBudget ==
  /\ users = {}
  /\ expenses \in SUBSET OverBudgetExpenseInputs
  /\ budgets = {Budget(1, "u1", "Travel", 10000, June2024, TRUE,
                       [enabled |-> TRUE, threshold |-> THRESHOLD_DEFAULT])}
  /\ nextId = 2
  /\ inflight = [s \in Slots |-> Idle]
  /\ last = NoResponse
  /\ now \in NowInputs
  /\ files = {}

NextOverBudget ==
  \/ \E body \in OverBudgetBodies, incThreshold \in IncThresholdInputs :
       updateBudgetInc("u1", 1, body, incThreshold)
  \/ getBudgetStatus("u1", NoMonth)
  \/ getBudgetAlerts("u1", NoMonth)

SpecOverBudget == InitOverBudget /\ [][NextOverBudget]_vars

(***************************************************************************)
(* C30: in every entry of a budget status isOverBudget implies             *)
(* shouldAlert, and the alerts are exactly the entries of the status with  *)
(* shouldAlert.                                                            *)
(***************************************************************************)
C30_OverBudgetImpliesAlert ==
  /\ IsStatusResponse => \A e \in Entries : e.isOverBudget => e.shouldAlert
  /\ last.op = "getBudgetAlerts" =>
       last.data =
         SelectSeq(BudgetStatusOf(budgets, expenses, last.user,
                                  last.info.monthYear),
                   LAMBDA e : e.shouldAlert)

====
